---- MODULE Spec2Model ----
(***************************************************************************)
(* Token vault of auth-manager-svc: the crypto primitive                   *)
(* (app/services/encryption.py), the vault store                           *)
(* (app/db/repositories/token_vault.py), the vault service                 *)
(* (app/services/token_vault.py), the per-request session                  *)
(* (app/db/base.py) and the orchestrator endpoints                         *)
(* (app/api/v1/auth_manager/*.py).                                         *)
(*                                                                         *)
(* Conventions.                                                            *)
(*  - A Python str holding hex text is a sequence of digits 0..15; the     *)
(*    value 16 stands for a character that is no hex digit.                *)
(*  - Python None is the sequence <<-1>> (no hex text and no byte string   *)
(*    contains -1), so that optional columns stay comparable in TLC.       *)
(*  - A plaintext token is the sequence of its UTF-8 bytes (ASCII here).   *)
(*  - Primary keys (uuid4) are fresh naturals, shown as ToString(id).      *)
(*  - SQL statements are taken at statement level: READ COMMITTED (the     *)
(*    PostgreSQL default, no isolation_level is set in db/base.py), the    *)
(*    keyword `metadata` names the metadata column.                        *)
(***************************************************************************)
EXTENDS Integers, Sequences, FiniteSets, TLC

\* ------------------------------------------------------------------ bounds
\* Most writing statements (INSERT / UPDATE) in one behaviour of Spec.
MaxWrites == 2
\* Number of concurrent upsert_refresh requests in SpecConc.
NumUpserts == 2

\* ------------------------------------------------------- program constants
\* AES block size in bytes, the modulus of _pad/_unpad and the IV length.
BlockSize == 16

None == <<-1>>

\* `not x` of Python for an Optional[str]: None and the empty string are falsy.
Falsy(x) == x = None \/ x = <<>>

\* ------------------------------------------------------------- byte helpers
RECURSIVE XorBits(_, _, _)
XorBits(a, b, n) ==
    IF n = 0 THEN 0
    ELSE (((a % 2) + (b % 2)) % 2) + 2 * XorBits(a \div 2, b \div 2, n - 1)

Xor(a, b) == XorBits(a, b, 8)

\* bytes.hex(): two hex digits per byte, high digit first.
RECURSIVE ToHex(_)
ToHex(bs) ==
    IF bs = <<>> THEN <<>>
    ELSE <<Head(bs) \div 16, Head(bs) % 16>> \o ToHex(Tail(bs))

\* bytes.fromhex() accepts exactly the strings of an even number of hex digits
\* (the model's hex text carries no whitespace).
HexOk(h) == h # None /\ Len(h) % 2 = 0 /\ \A i \in 1..Len(h) : h[i] \in 0..15

RECURSIVE FromHex(_)
FromHex(h) ==
    IF h = <<>> THEN <<>>
    ELSE <<16 * h[1] + h[2]>> \o FromHex(SubSeq(h, 3, Len(h)))

\* ------------------------------------------------------------ EncryptionService
\* self.key: the 32 bytes of the configured secret, fixed at construction.
Key == [i \in 1..32 |-> (7 * i + 3) % 256]

\* The AES-256 block permutation is library code; it is modelled as a keyed
\* permutation of 16-byte blocks (bytewise addition of both key halves).
BlockEnc(b) == [i \in 1..BlockSize |-> (b[i] + Key[i] + Key[i + BlockSize]) % 256]
BlockDec(b) == [i \in 1..BlockSize |-> (b[i] + 512 - Key[i] - Key[i + BlockSize]) % 256]
XorBlock(a, b) == [i \in 1..BlockSize |-> Xor(a[i], b[i])]

\* CBC: c_i = E(p_i xor c_{i-1}), c_0 = iv.
RECURSIVE CbcEncrypt(_, _)
CbcEncrypt(data, prev) ==
    IF data = <<>> THEN <<>>
    ELSE LET c == BlockEnc(XorBlock(SubSeq(data, 1, BlockSize), prev))
         IN  c \o CbcEncrypt(SubSeq(data, BlockSize + 1, Len(data)), c)

RECURSIVE CbcDecrypt(_, _)
CbcDecrypt(data, prev) ==
    IF data = <<>> THEN <<>>
    ELSE LET c == SubSeq(data, 1, BlockSize)
         IN  XorBlock(BlockDec(c), prev)
                 \o CbcDecrypt(SubSeq(data, BlockSize + 1, Len(data)), c)

PadToBlock(data) ==
    LET padding_length == (BlockSize - (Len(data) % BlockSize)) % BlockSize
    IN  data \o [i \in 1..padding_length |-> padding_length]
\* _pad: PKCS7, always adds 1..16 bytes.
Pad(data) ==
    LET padding_length == BlockSize - (Len(data) % BlockSize)
    IN  data \o [i \in 1..padding_length |-> padding_length]

UnpadLastByteOnly(data) ==
    IF Len(data) = 0 THEN "Cannot unpad empty data"
    ELSE IF data[Len(data)] > BlockSize \/ data[Len(data)] = 0
      THEN "Invalid padding length"
    ELSE IF data[Len(data)] > Len(data) THEN "IndexError"
    ELSE ""
\* _unpad: the message of the ValueError it raises, "" when it returns.  The
\* loop reads data[-(i + 1)] for i < padding_length; past the start of the
\* data that is an IndexError (decrypt_token hands over whole blocks, so that
\* padding_length <= 16 <= len(data) there).
UnpadError(data) ==
    IF Len(data) = 0 THEN "Cannot unpad empty data"
    ELSE IF data[Len(data)] > BlockSize \/ data[Len(data)] = 0
      THEN "Invalid padding length"
    ELSE IF \E i \in 0..(data[Len(data)] - 1) :
                i + 1 <= Len(data) /\ data[Len(data) - i] # data[Len(data)]
      THEN "Invalid padding bytes"
    ELSE IF data[Len(data)] > Len(data) THEN "IndexError"
    ELSE ""

UnpadOk(data) == UnpadError(data) = ""

\* return data[:-padding_length]
Unpad(data) == SubSeq(data, 1, Len(data) - data[Len(data)])

\* bytes.decode(): strict UTF-8.  cont(k): the k bytes after the lead byte are
\* continuation bytes 0x80..0xBF, the first of them within lo..hi.
RECURSIVE DecodeOk(_)
DecodeOk(bs) ==
    IF bs = <<>> THEN TRUE
    ELSE LET b == bs[1]
             cont(k, lo, hi) ==
                 /\ Len(bs) >= k + 1
                 /\ bs[2] \in lo..hi
                 /\ \A j \in 3..(k + 1) : bs[j] \in 128..191
                 /\ DecodeOk(SubSeq(bs, k + 2, Len(bs)))
         IN  IF b < 128 THEN DecodeOk(Tail(bs))
             ELSE IF b \in 194..223 THEN cont(1, 128, 191)
             ELSE IF b = 224 THEN cont(2, 160, 191)
             ELSE IF b = 237 THEN cont(2, 128, 159)
             ELSE IF b \in 225..239 THEN cont(2, 128, 191)
             ELSE IF b = 240 THEN cont(3, 144, 191)
             ELSE IF b \in 241..243 THEN cont(3, 128, 191)
             ELSE IF b = 244 THEN cont(3, 128, 143)
             ELSE FALSE

\* encrypt_token(token, iv): hex of CBC over the padded token.  The IVs the
\* service passes come from generate_iv and are always 16 bytes.
encrypt_token(token, iv) == ToHex(CbcEncrypt(Pad(token), FromHex(iv)))

\* decrypt_token(encrypted_token, iv): [err, message, val]; err = "ValueError"
\* for malformed hex, an IV that is not 16 bytes, a ciphertext that is not a
\* whole number of blocks (the cipher's finalize), bad padding, undecodable
\* bytes (UnicodeDecodeError is a ValueError).
DecryptFails(message) == [err |-> "ValueError", message |-> message, val |-> <<>>]
decrypt_token(encrypted_token, iv) ==
    IF ~(HexOk(iv) /\ HexOk(encrypted_token))
      THEN DecryptFails("Encrypted token and IV must be valid hex strings")
    ELSE IF Len(FromHex(iv)) # BlockSize
      THEN DecryptFails("IV must be 16 bytes (32 hex characters)")
    ELSE IF Len(FromHex(encrypted_token)) % BlockSize # 0
      THEN DecryptFails("not a multiple of the block length")
    ELSE LET decrypted == CbcDecrypt(FromHex(encrypted_token), FromHex(iv))
         IN  IF UnpadError(decrypted) = "IndexError"
               THEN [err |-> "IndexError", message |-> "", val |-> <<>>]
             ELSE IF ~UnpadOk(decrypted)
               THEN DecryptFails(UnpadError(decrypted))
             ELSE IF ~DecodeOk(Unpad(decrypted))
               THEN DecryptFails("UnicodeDecodeError")
             ELSE [err |-> "", message |-> "", val |-> Unpad(decrypted)]

\* hash_token: SHA-256 is modelled as a collision-free digest of the bytes.
hash_token(token) == <<256>> \o token

\* ------------------------------------------------------------------ inputs
Users == {"u1", "u2"}
Sessions == {"s1", "s2"}
OFFLINE == "offline"
REFRESH == "refresh"
TokenType == {OFFLINE, REFRESH}
\* The optional token_type filter of the lookups: "" is Python's None.
NoType == ""

\* Plaintext tokens "rt1" and "rt2".
T1 == <<114, 116, 49>>
T2 == <<114, 116, 50>>
Tokens == {T1, T2}

\* generate_iv: secrets.token_hex(16), any 16 random bytes; two of them here.
IvA == ToHex([i \in 1..BlockSize |-> i])
IvB == ToHex([i \in 1..BlockSize |-> 200 - i])
IVs == {IvA, IvB}
generate_iv == IVs

\* metadata: a dict is the set of its <<key, value>> items, None is NoMeta.
NoMeta == {<<"None">>}

\* The ciphertexts and digests the service can compute, evaluated once.
EncTable == [t \in Tokens, iv \in IVs |-> encrypt_token(t, iv)]
HashTable == [t \in Tokens |-> hash_token(t)]

\* Ciphertext / IV pairs of rows that reach the table through
\* TokenVaultRepository.create without the service (both columns are
\* nullable): absent data, and data the crypto primitive cannot decrypt.
BadHex == <<1, 16>>
ShortIv == <<1, 2>>
BadPadding == ToHex(CbcEncrypt([i \in 1..BlockSize |-> 65], FromHex(IvA)))
RawPairs ==
    { <<None, None>>, <<None, IvA>>, <<EncTable[T1, IvA], None>>,
      <<BadHex, IvA>>, <<EncTable[T1, IvA], ShortIv>>, <<BadPadding, IvA>> }

\* Every ciphertext / IV pair a row can hold, with its decryption.
StoredPairs == RawPairs \cup {<<EncTable[t, iv], iv>> : t \in Tokens, iv \in IVs}
DecTable == [p \in StoredPairs |->
                IF p[1] = None \/ p[2] = None
                  THEN [err |-> "TypeError", message |-> "", val |-> <<>>]
                  ELSE decrypt_token(p[1], p[2])]
Decrypt(entry) == DecTable[<<entry.encrypted_token, entry.iv>>]

VARIABLES
    vault,      \* the committed rows of table auth_vault
    nextId,     \* the next fresh primary key (uuid4)
    now,        \* the database clock: created_at / updated_at of the next write
    last,       \* the request that completed last and what it returned
    vault0,     \* the table the concurrent requests started from
    tx,         \* the concurrent requests: position, arguments, open transaction
    wrote,      \* the concurrent requests in the order of their write statements
    clock       \* the wall clock in seconds, as datetime.now(timezone.utc) reads it

vars == <<vault, nextId, now, last, vault0, tx, wrote, clock>>
concVars == <<vault0, tx, wrote>>

\* ---------------------------------------------------------------- AuthVault
\* One row of auth_vault.  created_at is the server default now(); updated_at
\* is NULL (0) until an UPDATE sets it (onupdate).
AuthVault(id, user_id, token_type, encrypted_token, iv, token_hash, session_state_id, metadata, created_at) ==
    [ id |-> id, user_id |-> user_id, token_type |-> token_type,
      encrypted_token |-> encrypted_token, iv |-> iv, token_hash |-> token_hash,
      metadata |-> metadata, session_state_id |-> session_state_id,
      created_at |-> created_at, updated_at |-> 0 ]

\* ------------------------------------------------------ TokenVaultRepository
\* ORDER BY created_at DESC of a set of rows (equal times in any order).
RECURSIVE OrderByCreatedAtDesc(_)
OrderByCreatedAtDesc(rows) ==
    IF rows = {} THEN <<>>
    ELSE LET r == CHOOSE x \in rows : \A y \in rows : x.created_at >= y.created_at
         IN  <<r>> \o OrderByCreatedAtDesc(rows \ {r})

\* A SELECT without ORDER BY returns its rows in some order.
RECURSIVE Unordered(_)
Unordered(rows) ==
    IF rows = {} THEN <<>>
    ELSE LET r == CHOOSE x \in rows : TRUE
         IN  <<r>> \o Unordered(rows \ {r})

\* Result.scalar_one_or_none(): the row, no row, or MultipleResultsFound when
\* the statement returned more than one row.  entry is a sequence of 0 or 1 rows.
scalar_one_or_none(result) ==
    IF Len(result) > 1
      THEN [err |-> "MultipleResultsFound", entry |-> <<>>]
      ELSE [err |-> "", entry |-> result]

\* session.add + flush: INSERT of one row.
CreateReplacing(table, entry) ==
    {r \in table : ~(r.user_id = entry.user_id /\ r.token_type = entry.token_type)}
        \cup {entry}
create(table, entry) == table \cup {entry}

repo_get_by_id(table, token_id) ==
    scalar_one_or_none(Unordered({r \in table : r.id = token_id}))

repo_get_by_user_id(table, user_id, token_type) ==
    scalar_one_or_none(OrderByCreatedAtDesc(
        {r \in table : /\ r.user_id = user_id
                       /\ (token_type # NoType => r.token_type = token_type)}))

repo_get_by_session_state_id(table, session_state_id, token_type) ==
    scalar_one_or_none(Unordered(
        {r \in table : /\ r.session_state_id = session_state_id
                       /\ (token_type # NoType => r.token_type = token_type)}))

\* UPDATE auth_vault SET ... WHERE id = :id, one statement; updated_at = now().
UpdateKeepIv(table, id, encrypted_token, iv, token_hash, session_state_id, metadata, at) ==
    {IF r.id = id
       THEN [r EXCEPT !.encrypted_token = encrypted_token,
                      !.token_hash = token_hash,
                      !.session_state_id = session_state_id,
                      !.metadata = metadata, !.updated_at = at]
       ELSE r : r \in table}
update_values(table, id, encrypted_token, iv, token_hash, session_state_id, metadata, at) ==
    {IF r.id = id
       THEN [r EXCEPT !.encrypted_token = encrypted_token, !.iv = iv,
                      !.token_hash = token_hash,
                      !.session_state_id = session_state_id,
                      !.metadata = metadata, !.updated_at = at]
       ELSE r : r \in table}

DeleteNothing(table, token_id) == table
\* DELETE FROM auth_vault WHERE id = :id.
delete_by_id(table, token_id) == {r \in table : r.id # token_id}

\* SELECT ... WHERE session_state_id = :s AND id != :exclude_id, .all().
get_all_by_session_state_id(table, session_state_id, exclude_id) ==
    Unordered({r \in table : /\ r.session_state_id = session_state_id
                             /\ r.id # exclude_id})

\* SELECT ... WHERE token_hash = :h AND id != :exclude_id, then
\* `result.scalar_one_or_none() is not None`.
check_duplicate_token_hash(table, token_hash, exclude_id) ==
    LET result == scalar_one_or_none(Unordered(
                      {r \in table : /\ r.token_hash = token_hash
                                     /\ r.id # exclude_id}))
    IN  [err |-> result.err, val |-> result.entry # <<>>]

\* --------------------------------------------------------- TokenVaultService
\* What a lookup of the service returns: outcome "ok" with the entry and the
\* plaintext, "None", or the exception that leaves the handler.
Found(entry, plain) == [outcome |-> "ok", entry |-> <<entry>>, plain |-> plain]
Fails(outcome) == [outcome |-> outcome, entry |-> <<>>, plain |-> None]

RetrieveNoDataCheck(table, token_id) ==
    LET got == repo_get_by_id(table, token_id)
    IN  IF got.err # "" THEN Fails(got.err)
        ELSE IF got.entry = <<>> THEN Fails("token_not_found")
        ELSE IF Decrypt(got.entry[1]).err # ""
          THEN Fails(Decrypt(got.entry[1]).err)
        ELSE Found(got.entry[1], Decrypt(got.entry[1]).val)
retrieve_and_decrypt(table, token_id) ==
    LET got == repo_get_by_id(table, token_id)
    IN  IF got.err # "" THEN Fails(got.err)
        ELSE IF got.entry = <<>> THEN Fails("token_not_found")
        ELSE IF Falsy(got.entry[1].encrypted_token) \/ Falsy(got.entry[1].iv)
          THEN Fails("token_not_found")
        ELSE IF Decrypt(got.entry[1]).err # ""
          THEN Fails(Decrypt(got.entry[1]).err)
        ELSE Found(got.entry[1], Decrypt(got.entry[1]).val)

\* The tail shared by get_by_session_state and get_by_user_id.
DecryptOrNoneSwallow(got) ==
    IF got.err # "" THEN Fails(got.err)
    ELSE IF got.entry = <<>> THEN Fails("None")
    ELSE IF Falsy(got.entry[1].encrypted_token) \/ Falsy(got.entry[1].iv)
      THEN Fails("None")
    ELSE IF Decrypt(got.entry[1]).err # "" THEN Fails("None")
    ELSE Found(got.entry[1], Decrypt(got.entry[1]).val)
DecryptOrNoneNoDataCheck(got) ==
    IF got.err # "" THEN Fails(got.err)
    ELSE IF got.entry = <<>> THEN Fails("None")
    ELSE IF Decrypt(got.entry[1]).err # ""
      THEN Fails(Decrypt(got.entry[1]).err)
    ELSE Found(got.entry[1], Decrypt(got.entry[1]).val)
DecryptOrNoneKeepsMissing(got) ==
    IF got.err # "" THEN Fails(got.err)
    ELSE IF got.entry = <<>> THEN Fails("None")
    ELSE IF Falsy(got.entry[1].encrypted_token) \/ Falsy(got.entry[1].iv)
      THEN Found(got.entry[1], None)
    ELSE IF Decrypt(got.entry[1]).err # ""
      THEN Fails(Decrypt(got.entry[1]).err)
    ELSE Found(got.entry[1], Decrypt(got.entry[1]).val)
DecryptOrNone(got) ==
    IF got.err # "" THEN Fails(got.err)
    ELSE IF got.entry = <<>> THEN Fails("None")
    ELSE IF Falsy(got.entry[1].encrypted_token) \/ Falsy(got.entry[1].iv)
      THEN Fails("None")
    ELSE IF Decrypt(got.entry[1]).err # ""
      THEN Fails(Decrypt(got.entry[1]).err)
    ELSE Found(got.entry[1], Decrypt(got.entry[1]).val)

get_by_session_state(table, session_state_id, token_type) ==
    DecryptOrNone(repo_get_by_session_state_id(table, session_state_id, token_type))

get_by_user_id(table, user_id, token_type) ==
    DecryptOrNone(repo_get_by_user_id(table, user_id, token_type))

\* TokenVaultRepository.upsert_refresh_token run against one table: the table
\* after it, the id it returns and whether it took the create branch.  err is
\* the exception of the lookup, which leaves the table as it was.
UpsertAnyType(table, fresh_id, at, user_id, encrypted_token, iv, token_hash, session_state_id, metadata) ==
    LET existing == repo_get_by_user_id(table, user_id, NoType)
    IN  IF existing.err # ""
          THEN [err |-> existing.err, table |-> table, id |-> 0, created |-> FALSE]
        ELSE IF existing.entry # <<>>
          THEN [err |-> "",
                table |-> update_values(table, existing.entry[1].id,
                                        encrypted_token, iv, token_hash,
                                        session_state_id, metadata, at),
                id |-> existing.entry[1].id, created |-> FALSE]
        ELSE [err |-> "",
              table |-> create(table, AuthVault(fresh_id, user_id, REFRESH,
                                                encrypted_token, iv, token_hash,
                                                session_state_id, metadata, at)),
              id |-> fresh_id, created |-> TRUE]
upsert_refresh_token(table, fresh_id, at, user_id, encrypted_token, iv, token_hash, session_state_id, metadata) ==
    LET existing == repo_get_by_user_id(table, user_id, REFRESH)
    IN  IF existing.err # ""
          THEN [err |-> existing.err, table |-> table, id |-> 0, created |-> FALSE]
        ELSE IF existing.entry # <<>>
          THEN [err |-> "",
                table |-> update_values(table, existing.entry[1].id,
                                        encrypted_token, iv, token_hash,
                                        session_state_id, metadata, at),
                id |-> existing.entry[1].id, created |-> FALSE]
        ELSE [err |-> "",
              table |-> create(table, AuthVault(fresh_id, user_id, REFRESH,
                                                encrypted_token, iv, token_hash,
                                                session_state_id, metadata, at)),
              id |-> fresh_id, created |-> TRUE]

\* check_shared_token: the tuple (has_duplicate_hash, has_shared_session), or
\* the exception of the first query.
check_shared_token(table, token_hash, session_state_id, exclude_id) ==
    LET has_duplicate_hash == check_duplicate_token_hash(table, token_hash, exclude_id)
        shared_sessions ==
            get_all_by_session_state_id(table, session_state_id, exclude_id)
    IN  IF has_duplicate_hash.err # ""
          THEN [err |-> has_duplicate_hash.err, has_duplicate_hash |-> FALSE,
                has_shared_session |-> FALSE]
          ELSE [err |-> "", has_duplicate_hash |-> has_duplicate_hash.val,
                has_shared_session |-> Len(shared_sessions) > 0]

\* ------------------------------------------------------- requests, one by one
\* The record kept of the request that completed last: its arguments, what it
\* answered, and the calls it made, in order, to the provider, the vault and
\* the state token service.
\* Python None of a str-valued claim, field or parameter.
NoneStr == "None"
\* A key a dict does not have.
Missing == "<missing>"
JwtPayload(user_id, session_state_id, exp, iat) ==
    [user_id |-> user_id, session_state_id |-> session_state_id, exp |-> exp, iat |-> iat]
NoStateToken ==
    [segments |-> 0, payload |-> JwtPayload(Missing, Missing, 0, 0), signature |-> <<>>]
NoArgs ==
    [bearer |-> "", code |-> "", state |-> NoStateToken, error |-> NoneStr,
     authorization |-> <<>>]
NoIntrospection == [status |-> 0, active |-> FALSE, sub |-> "", session_state |-> ""]
NoResponse == [status |-> 0, refresh_token |-> None, session_state |-> ""]

\* KeycloakError(message, status_code=response.status_code): the status the
\* exception carries is the one of the provider's answer that was not 200
\* (status 0: the call was not made); the callback raises it with 400 for an
\* error parameter.  Any other outcome carries no upstream status (0).
KeycloakStatusFixed(outcome, introspection, response) ==
    IF outcome # "keycloak_error" THEN 0 ELSE 500
KeycloakStatus(outcome, introspection, response) ==
    IF outcome # "keycloak_error" THEN 0
    ELSE IF introspection.status \notin {0, 200} THEN introspection.status
    ELSE IF response.status \notin {0, 200} THEN response.status
    ELSE 400

Flow(op, introspection, response, id, outcome, entry) ==
    [ op |-> op, user_id |-> introspection.sub, token_type |-> NoType,
      session_state_id |-> introspection.session_state,
      token |-> response.refresh_token, id |-> id,
      outcome |-> outcome, entry |-> entry, plain |-> None,
      introspection |-> introspection, response |-> response,
      status_code |-> KeycloakStatus(outcome, introspection, response),
      calls |-> <<>>, args |-> NoArgs, at |-> clock ]

Request(op, user_id, token_type, session_state_id, token, id, outcome, entry, plain) ==
    [ op |-> op, user_id |-> user_id, token_type |-> token_type,
      session_state_id |-> session_state_id, token |-> token, id |-> id,
      outcome |-> outcome, entry |-> entry, plain |-> plain,
      introspection |-> NoIntrospection, response |-> NoResponse,
      status_code |-> 0,
      calls |-> <<>>, args |-> NoArgs, at |-> clock ]

Init ==
    /\ clock = 0
    /\ vault = {}
    /\ nextId = 1
    /\ now = 0
    /\ last = Request("init", "", NoType, "", None, 0, "ok", <<>>, None)
    /\ vault0 = {}
    /\ tx = <<>>
    /\ wrote = <<>>

\* TokenVaultService.store_token in a request of its own; the session commits
\* when the handler returns.
Store(user_id, token, token_type, session_state_id, metadata) ==
    /\ now < MaxWrites
    /\ \E iv \in generate_iv :
         LET entry == AuthVault(nextId, user_id, token_type, EncTable[token, iv],
                                iv, HashTable[token], session_state_id, metadata,
                                now + 1)
         IN  /\ vault' = create(vault, entry)
             /\ last' = Request("store", user_id, token_type, session_state_id,
                                token, nextId, "ok", <<entry>>, None)
    /\ nextId' = nextId + 1
    /\ now' = now + 1
    /\ UNCHANGED <<concVars, clock>>

\* TokenVaultService.upsert_refresh_token in a request of its own; an exception
\* rolls the session back.
UpsertRefresh(user_id, token, session_state_id, metadata) ==
    /\ \E iv \in generate_iv :
         LET res == upsert_refresh_token(vault, nextId, now + 1, user_id,
                                         EncTable[token, iv], iv, HashTable[token],
                                         session_state_id, metadata)
         IN  /\ res.err = "" => now < MaxWrites
             /\ vault' = res.table
             /\ nextId' = IF res.created THEN nextId + 1 ELSE nextId
             /\ now' = IF res.err = "" THEN now + 1 ELSE now
             /\ last' = Request("upsert_refresh", user_id, REFRESH,
                                session_state_id, token, res.id,
                                IF res.err = "" THEN "ok" ELSE res.err, <<>>, None)
    /\ UNCHANGED <<concVars, clock>>

\* TokenVaultService.delete_token.
DeleteToken(token_id) ==
    /\ vault' = delete_by_id(vault, token_id)
    /\ last' = Request("delete", "", NoType, "", None, token_id,
                       IF vault' # vault THEN "True" ELSE "False", <<>>, None)
    /\ UNCHANGED <<nextId, now>>
    /\ UNCHANGED <<concVars, clock>>

\* The three lookups of the service; a read leaves the table as it is.
Lookup(op, user_id, token_type, session_state_id, token_id, res) ==
    /\ last' = Request(op, user_id, token_type, session_state_id, None, token_id,
                       res.outcome, res.entry, res.plain)
    /\ UNCHANGED <<vault, nextId, now>>
    /\ UNCHANGED <<concVars, clock>>

RetrieveAndDecrypt(token_id) ==
    Lookup("retrieve_and_decrypt", "", NoType, "", token_id,
           retrieve_and_decrypt(vault, token_id))

GetByUserId(user_id, token_type) ==
    Lookup("get_by_user_id", user_id, token_type, "", 0,
           get_by_user_id(vault, user_id, token_type))

GetBySessionState(session_state_id, token_type) ==
    Lookup("get_by_session_state", "", token_type, session_state_id, 0,
           get_by_session_state(vault, session_state_id, token_type))

\* TokenVaultRepository.create called without the service: a row whose
\* ciphertext / IV pair is absent or unreadable.
RepositoryCreate(user_id, token_type, session_state_id, pair) ==
    /\ now < MaxWrites
    /\ LET entry == AuthVault(nextId, user_id, token_type, pair[1], pair[2],
                              None, session_state_id, NoMeta, now + 1)
       IN  /\ vault' = create(vault, entry)
           /\ last' = Request("create", user_id, token_type, session_state_id,
                              None, nextId, "ok", <<entry>>, None)
    /\ nextId' = nextId + 1
    /\ now' = now + 1
    /\ UNCHANGED <<concVars, clock>>

\* ------------------------------------------------------------------ guards
\* guard_not_none(value, error_message) takes two positional arguments; a call
\* with any other number raises TypeError when the context manager is built,
\* whatever the value.  "" is: the body of the with-statement runs.
GuardNotNoneParams == 2
guard_not_none(value_is_none, nargs) ==
    IF nargs # GuardNotNoneParams THEN "TypeError"
    ELSE IF value_is_none THEN "validation_error"
    ELSE ""

\* guard_condition(condition, error_message, error_code).
guard_condition(condition, error_code) == IF condition THEN "" ELSE error_code

\* -------------------------------------------------------- StateTokenService
\* Time is counted in whole seconds, the resolution of the exp and iat claims.
SecretKey == "state-secret"
OtherKey == "other-secret"
DefaultExpiresIn == 600

\* HS256 over header and payload: a tag that only the holder of the key can
\* compute and that matches no other payload.
Sign(key, payload) == <<key, payload>>

jwt_encode(payload, key) ==
    [segments |-> 3, payload |-> payload, signature |-> Sign(key, payload)]

JwtDecodeUnverified(token, key, at, expired_at_exp) ==
    IF token.segments # 3
      THEN [err |-> "DecodeError", payload |-> token.payload]
    ELSE IF token.payload.exp < at \/ (expired_at_exp /\ token.payload.exp = at)
      THEN [err |-> "ExpiredSignatureError", payload |-> token.payload]
    ELSE [err |-> "", payload |-> token.payload]

JwtDecodeNoExpiry(token, key, at, expired_at_exp) ==
    IF token.segments # 3
      THEN [err |-> "DecodeError", payload |-> token.payload]
    ELSE IF token.signature # Sign(key, token.payload)
      THEN [err |-> "InvalidSignatureError", payload |-> token.payload]
    ELSE [err |-> "", payload |-> token.payload]

\* jwt.decode(token, key, algorithms=["HS256"]) at time `at`.  Whether a token
\* is already expired in the very second of its exp claim depends on the
\* version of the library: expired_at_exp.
jwt_decode(token, key, at, expired_at_exp) ==
    IF token.segments # 3
      THEN [err |-> "DecodeError", payload |-> token.payload]
    ELSE IF token.signature # Sign(key, token.payload)
      THEN [err |-> "InvalidSignatureError", payload |-> token.payload]
    ELSE IF token.payload.exp < at \/ (expired_at_exp /\ token.payload.exp = at)
      THEN [err |-> "ExpiredSignatureError", payload |-> token.payload]
    ELSE [err |-> "", payload |-> token.payload]

generate_state_token(user_id, session_state_id, expires_in, at) ==
    jwt_encode(JwtPayload(user_id, session_state_id, at + expires_in, at), SecretKey)

StateTokenFails(message) ==
    [err |-> "invalid_state_token", message |-> message, val |-> <<>>]

ParseKeyErrorUncaught(token, at, expired_at_exp) ==
    LET decoded == jwt_decode(token, SecretKey, at, expired_at_exp)
    IN  IF decoded.err = "ExpiredSignatureError"
          THEN StateTokenFails("State token has expired")
        ELSE IF decoded.err # ""
          THEN StateTokenFails("Invalid state token")
        ELSE IF \/ decoded.payload.user_id = Missing
                \/ decoded.payload.session_state_id = Missing
          THEN [err |-> "KeyError", message |-> "", val |-> <<>>]
        ELSE [err |-> "", message |-> "",
              val |-> <<[user_id |-> decoded.payload.user_id,
                         session_state_id |-> decoded.payload.session_state_id]>>]

parse_state_token(token, at, expired_at_exp) ==
    LET decoded == jwt_decode(token, SecretKey, at, expired_at_exp)
    IN  IF decoded.err = "ExpiredSignatureError"
          THEN StateTokenFails("State token has expired")
        ELSE IF decoded.err # ""
          THEN StateTokenFails("Invalid state token")
        ELSE IF \/ decoded.payload.user_id = Missing
                \/ decoded.payload.session_state_id = Missing
          THEN StateTokenFails("Missing required field in state token")
        ELSE [err |-> "", message |-> "",
              val |-> <<[user_id |-> decoded.payload.user_id,
                         session_state_id |-> decoded.payload.session_state_id]>>]

\* ----------------------------------------------------------- OAuth provider
\* introspect_token: KeycloakError on a status other than 200, else the claims.
Introspections ==
    { [status |-> 500, active |-> FALSE, sub |-> NoneStr, session_state |-> NoneStr],
      [status |-> 401, active |-> FALSE, sub |-> NoneStr, session_state |-> NoneStr],
      [status |-> 200, active |-> FALSE, sub |-> NoneStr, session_state |-> NoneStr],
      [status |-> 200, active |-> FALSE, sub |-> "u1", session_state |-> "s1"],
      [status |-> 200, active |-> TRUE, sub |-> NoneStr, session_state |-> "s1"],
      [status |-> 200, active |-> TRUE, sub |-> "u1", session_state |-> NoneStr],
      [status |-> 200, active |-> TRUE, sub |-> "u1", session_state |-> "s1"] }

\* The token endpoint (refresh grant): KeycloakError on a status other than
\* 200, else a KeycloakTokenResponse whose refresh_token is optional.
TokenResponses ==
    { [status |-> 400, refresh_token |-> None, session_state |-> NoneStr],
      [status |-> 503, refresh_token |-> None, session_state |-> NoneStr],
      [status |-> 200, refresh_token |-> None, session_state |-> "s1"],
      [status |-> 200, refresh_token |-> T2, session_state |-> "s1"] }

\* `response = await self.client.post(endpoint, data=data)` in each method of
\* KeycloakService: one request to the provider per call of the method.
PostRetrying(call) == <<call, call>>
client_post(call) == <<call>>

\* --------------------------------------------------------------- endpoints
\* What a handler does to the table: the exception that leaves it (the session
\* rolls back) or "ok" with the table to commit and the id it answers with.
Raises(outcome, table) ==
    [outcome |-> outcome, table |-> table, id |-> 0, entry |-> <<>>, created |-> FALSE]

ValidateSubOnly(introspection) ==
    IF introspection.status # 200 THEN "keycloak_error"
    ELSE IF guard_condition(introspection.active, "token_not_active") # ""
      THEN guard_condition(introspection.active, "token_not_active")
    ELSE guard_not_none(introspection.sub = NoneStr, 2)

\* The guards on the introspection answer at the head of generate_offline_token
\* and of request_offline_token_consent: "" when the handler goes on.
offline_token_validate(introspection) ==
    IF introspection.status # 200 THEN "keycloak_error"
    ELSE IF guard_condition(introspection.active, "token_not_active") # ""
      THEN guard_condition(introspection.active, "token_not_active")
    ELSE IF guard_not_none(introspection.sub = NoneStr, 2) # ""
      THEN guard_not_none(introspection.sub = NoneStr, 2)
    ELSE guard_not_none(introspection.session_state = NoneStr, 2)

\* POST /offline-token-id, generate_offline_token, in its three stretches:
\* up to the vault lookup, the provider call with the guard on its answer,
\* and the store.
offline_token_lookup(table, introspection) ==
    IF offline_token_validate(introspection) # ""
      THEN Fails(offline_token_validate(introspection))
    ELSE
      LET offline_token_data ==
              get_by_session_state(table, introspection.session_state, OFFLINE)
      IN  IF offline_token_data.outcome = "None"
            THEN Fails("token_not_found")
            ELSE offline_token_data

offline_token_request(response) ==
    IF response.status # 200 THEN "keycloak_error"
    ELSE guard_not_none(response.refresh_token = None, 3)

offline_token_store(table, fresh_id, at, iv, introspection, response, entry) ==
    LET new_entry ==
            AuthVault(fresh_id, introspection.sub, OFFLINE,
                      EncTable[response.refresh_token, iv], iv,
                      HashTable[response.refresh_token], response.session_state,
                      { <<"scope", "offline_access">>, <<"token_type", "Bearer">>,
                        <<"from", ToString(entry.id)>> },
                      at)
    IN  [outcome |-> "ok", table |-> create(table, new_entry), id |-> fresh_id,
         entry |-> <<new_entry>>, created |-> TRUE]

\* POST /refresh-token-id, make_new_refresh_token_id, likewise.  It does not
\* look at introspection.active, and of the claims it guards sub only.
refresh_token_validate(introspection) ==
    IF introspection.status # 200 THEN "keycloak_error"
    ELSE guard_not_none(introspection.sub = NoneStr, 2)

RefreshLookupNotFound(table, introspection) ==
    IF refresh_token_validate(introspection) # ""
      THEN Fails(refresh_token_validate(introspection))
    ELSE
      LET refresh_token_data == get_by_user_id(table, introspection.sub, REFRESH)
      IN  IF refresh_token_data.outcome = "None"
            THEN Fails("token_not_found")
          ELSE IF refresh_token_data.outcome # "ok"
            THEN refresh_token_data
          ELSE IF \/ Falsy(refresh_token_data.entry[1].encrypted_token)
                  \/ Falsy(refresh_token_data.entry[1].iv)
            THEN Fails("token_not_found")
          ELSE refresh_token_data
refresh_token_lookup(table, introspection) ==
    IF refresh_token_validate(introspection) # ""
      THEN Fails(refresh_token_validate(introspection))
    ELSE
      LET refresh_token_data == get_by_user_id(table, introspection.sub, REFRESH)
      IN  IF refresh_token_data.outcome = "None"
            THEN Fails("invalid_request")
          ELSE IF refresh_token_data.outcome # "ok"
            THEN refresh_token_data
          ELSE IF \/ Falsy(refresh_token_data.entry[1].encrypted_token)
                  \/ Falsy(refresh_token_data.entry[1].iv)
            THEN Fails("token_not_found")
          ELSE refresh_token_data

refresh_token_request(response) ==
    IF response.status # 200 THEN "keycloak_error"
    ELSE guard_not_none(response.refresh_token = None, 3)

refresh_token_upsert(table, fresh_id, at, iv, introspection, response) ==
    LET res == upsert_refresh_token(
                   table, fresh_id, at, introspection.sub,
                   EncTable[response.refresh_token, iv], iv,
                   HashTable[response.refresh_token], response.session_state,
                   {<<"session_id", introspection.session_state>>})
    IN  [outcome |-> IF res.err = "" THEN "ok" ELSE res.err, table |-> res.table,
         id |-> res.id, entry |-> <<>>, created |-> res.created]

\* GET /validate, validate_token: the introspection and the guard on active.
validate_token(introspection) ==
    IF introspection.status # 200 THEN "keycloak_error"
    ELSE IF guard_condition(introspection.active, "token_not_active") # ""
      THEN guard_condition(introspection.active, "token_not_active")
    ELSE "ok"

LookupByBearer(table, token, id) ==
    IF token = "at2" THEN Fails("unauthorized") ELSE retrieve_and_decrypt(table, id)

\* GET /access-token, get_access_token: the bearer token is a parameter the
\* handler does not use.
get_access_token_lookup(table, token, id) == retrieve_and_decrypt(table, id)

get_access_token_request(response) ==
    IF response.status # 200 THEN "keycloak_error" ELSE "ok"

\* GET /offline-token/callback, offline_token_callback: `if error:`, then the
\* state token, then the code exchange with the guard on its answer.
NeverTruthy(text) == FALSE
Truthy(text) == text # NoneStr /\ text # ""

offline_token_callback_request(response) ==
    IF response.status # 200 THEN "keycloak_error"
    ELSE guard_not_none(response.refresh_token = None, 3)

offline_token_callback_store(table, fresh_id, at, iv, state_payload, response) ==
    LET stored_entry ==
            AuthVault(fresh_id, state_payload.user_id, OFFLINE,
                      EncTable[response.refresh_token, iv], iv,
                      HashTable[response.refresh_token],
                      state_payload.session_state_id,
                      { <<"scope", "offline_access">>, <<"token_type", "Bearer">> },
                      at)
    IN  [outcome |-> "ok", table |-> create(table, stored_entry), id |-> fresh_id,
         entry |-> <<stored_entry>>, created |-> TRUE]

\* One request to an endpoint, run to its end: the session commits when the
\* handler returns and rolls back when it raises.
Endpoint(op, res, introspection, response, calls, args) ==
    /\ res.table # vault => now < MaxWrites
    /\ vault' = res.table
    /\ nextId' = IF res.created THEN nextId + 1 ELSE nextId
    /\ now' = IF res.table # vault THEN now + 1 ELSE now
    /\ last' = [Flow(op, introspection, response, res.id, res.outcome, res.entry)
                  EXCEPT !.calls = calls, !.args = args]
    /\ UNCHANGED <<concVars, clock>>

Bearers == {"at1", "at2"}

OfflineRenewalWith(introspection, args) ==
    LET found == offline_token_lookup(vault, introspection)
        head == IF offline_token_validate(introspection) # ""
                  THEN client_post("introspect_token")
                  ELSE client_post("introspect_token") \o <<"get_by_session_state">>
    IN  IF found.outcome # "ok"
          THEN Endpoint("offline_token_id", Raises(found.outcome, vault),
                        introspection, NoResponse, head, args)
          ELSE \E response \in TokenResponses :
                 IF offline_token_request(response) # ""
                   THEN Endpoint("offline_token_id",
                                 Raises(offline_token_request(response), vault),
                                 introspection, response,
                                 head \o client_post("request_offline_token"), args)
                   ELSE \E iv \in generate_iv :
                          Endpoint("offline_token_id",
                                   offline_token_store(vault, nextId, now + 1, iv,
                                                       introspection, response,
                                                       found.entry[1]),
                                   introspection, response,
                                   head \o client_post("request_offline_token")
                                        \o <<"store_token">>,
                                   args)

OfflineRenewal(introspection) == OfflineRenewalWith(introspection, NoArgs)

RefreshRotationWith(introspection, args) ==
    LET found == refresh_token_lookup(vault, introspection)
        head == IF refresh_token_validate(introspection) # ""
                  THEN client_post("introspect_token")
                  ELSE client_post("introspect_token") \o <<"get_by_user_id">>
    IN  IF found.outcome # "ok"
          THEN Endpoint("refresh_token_id", Raises(found.outcome, vault),
                        introspection, NoResponse, head, args)
          ELSE \E response \in TokenResponses :
                 IF refresh_token_request(response) # ""
                   THEN Endpoint("refresh_token_id",
                                 Raises(refresh_token_request(response), vault),
                                 introspection, response,
                                 head \o client_post("refresh_access_token"), args)
                   ELSE \E iv \in generate_iv :
                          Endpoint("refresh_token_id",
                                   refresh_token_upsert(vault, nextId, now + 1, iv,
                                                        introspection, response),
                                   introspection, response,
                                   head \o client_post("refresh_access_token")
                                        \o <<"upsert_refresh_token">>,
                                   args)

RefreshRotation(introspection) == RefreshRotationWith(introspection, NoArgs)

ValidateOnlyWith(introspection, args) ==
    Endpoint("validate_token", Raises(validate_token(introspection), vault),
             introspection, NoResponse, client_post("introspect_token"), args)

ValidateOnly(introspection) == ValidateOnlyWith(introspection, NoArgs)

\* POST /offline-token: the state token is generated with the default
\* expires_in and handed to the caller.
OfflineConsentWith(introspection, args) ==
    IF offline_token_validate(introspection) # ""
      THEN Endpoint("offline_token", Raises(offline_token_validate(introspection), vault),
                    introspection, NoResponse, client_post("introspect_token"), args)
      ELSE Endpoint("offline_token", Raises("ok", vault), introspection, NoResponse,
                    client_post("introspect_token") \o <<"generate_state_token">>,
                    [args EXCEPT !.state =
                        generate_state_token(introspection.sub,
                                             introspection.session_state,
                                             DefaultExpiresIn, clock)])

OfflineConsent(introspection) == OfflineConsentWith(introspection, NoArgs)

AccessTokenRefreshWith(bearer, id, args) ==
    LET found == get_access_token_lookup(vault, bearer, id)
    IN  IF found.outcome # "ok"
          THEN Endpoint("access_token",
                        [Raises(found.outcome, vault) EXCEPT !.id = id],
                        NoIntrospection, NoResponse, <<"retrieve_and_decrypt">>,
                        [args EXCEPT !.bearer = bearer])
          ELSE \E response \in TokenResponses :
                 Endpoint("access_token",
                          [Raises(get_access_token_request(response), vault)
                             EXCEPT !.id = id],
                          NoIntrospection, response,
                          <<"retrieve_and_decrypt">> \o client_post("refresh_access_token"),
                          [args EXCEPT !.bearer = bearer])

AccessTokenRefresh(bearer, id) == AccessTokenRefreshWith(bearer, id, NoArgs)

OfflineCallback(code, state, error) ==
    LET args == [NoArgs EXCEPT !.code = code, !.state = state, !.error = error]
    IN  IF Truthy(error)
          THEN Endpoint("offline_token_callback", Raises("keycloak_error", vault),
                        NoIntrospection, NoResponse, <<>>, args)
          ELSE \E expired_at_exp \in BOOLEAN :
            LET parsed == parse_state_token(state, clock, expired_at_exp)
            IN  IF parsed.err # ""
                  THEN Endpoint("offline_token_callback", Raises(parsed.err, vault),
                                NoIntrospection, NoResponse,
                                <<"parse_state_token">>, args)
                  ELSE \E response \in TokenResponses :
                    IF offline_token_callback_request(response) # ""
                      THEN Endpoint("offline_token_callback",
                                    Raises(offline_token_callback_request(response),
                                           vault),
                                    NoIntrospection, response,
                                    <<"parse_state_token">>
                                        \o client_post("exchange_code_for_token"),
                                    args)
                      ELSE \E iv \in generate_iv :
                        Endpoint("offline_token_callback",
                                 offline_token_callback_store(vault, nextId, now + 1,
                                                              iv, parsed.val[1],
                                                              response),
                                 NoIntrospection, response,
                                 <<"parse_state_token">>
                                     \o client_post("exchange_code_for_token")
                                     \o <<"store_token">>,
                                 args)

Ids == 1..MaxWrites

\* The arguments the requests are run with.
Meta1 == {<<"scope", "openid">>}
StoreArgs ==
    { <<"u1", T1, REFRESH, "s1", NoMeta>>,
      <<"u1", T2, OFFLINE, "s1", Meta1>>,
      <<"u2", T1, OFFLINE, "s2", NoMeta>> }
UpsertArgs ==
    { <<"u1", T2, "s2", Meta1>>,
      <<"u2", T1, "s1", NoMeta>> }
RawArgs ==
    {<<OFFLINE, p>> : p \in RawPairs} \cup {<<REFRESH, <<None, None>> >>}

Next ==
    \/ \E a \in StoreArgs : Store(a[1], a[2], a[3], a[4], a[5])
    \/ \E a \in UpsertArgs : UpsertRefresh(a[1], a[2], a[3], a[4])
    \/ \E id \in Ids : DeleteToken(id)
    \/ \E id \in Ids : RetrieveAndDecrypt(id)
    \/ \E u \in Users, tt \in TokenType \cup {NoType} : GetByUserId(u, tt)
    \/ \E s \in Sessions, tt \in TokenType \cup {NoType} : GetBySessionState(s, tt)
    \/ \E a \in RawArgs : RepositoryCreate("u1", a[1], "s1", a[2])
    \/ \E i \in Introspections : OfflineRenewal(i)
    \/ \E i \in Introspections : RefreshRotation(i)

Spec == Init /\ [][Next]_vars

\* ------------------------------------------- concurrent upsert_refresh requests
\* NumUpserts requests call TokenVaultService.upsert_refresh_token for user U,
\* each in the session of its own request (DatabaseSessionManager.session: one
\* transaction, committed when the handler has returned).  Under READ COMMITTED
\* a SELECT sees the committed rows, an INSERT is invisible until its commit,
\* and an UPDATE of a row waits while another open transaction has updated it.
U == "u1"
Upserts == 1..NumUpserts
ConcArgs == {<<T1, "s1", NoMeta>>, <<T2, "s2", Meta1>>}

\* The rows the requests may find: a refresh entry of U and an offline one.
E0 == AuthVault(1, U, REFRESH, EncTable[T1, IvB], IvB, HashTable[T1], "s0", NoMeta, 1)
Off0 == AuthVault(2, U, OFFLINE, EncTable[T2, IvA], IvA, HashTable[T2], "s1", NoMeta, 2)

Idle ==
    [ pc |-> "start", token |-> None, session_state_id |-> "", metadata |-> NoMeta,
      iv |-> None, existing |-> <<>>, id |-> 0, at |-> 0, err |-> "" ]

InitConc ==
    /\ clock = 0
    /\ vault \in {{}, {Off0}, {E0}, {E0, Off0}}
    /\ vault0 = vault
    /\ nextId = 3
    /\ now = 2
    /\ last = Request("init", "", NoType, "", None, 0, "ok", <<>>, None)
    /\ tx = [p \in Upserts |-> Idle]
    /\ wrote = <<>>

\* What request p writes: the columns upsert_refresh_token sets.
Payload(p) ==
    [ encrypted_token |-> EncTable[tx[p].token, tx[p].iv], iv |-> tx[p].iv,
      token_hash |-> HashTable[tx[p].token],
      session_state_id |-> tx[p].session_state_id, metadata |-> tx[p].metadata ]

PayloadOf(entry) ==
    [ encrypted_token |-> entry.encrypted_token, iv |-> entry.iv,
      token_hash |-> entry.token_hash,
      session_state_id |-> entry.session_state_id, metadata |-> entry.metadata ]

\* The service prepares iv, ciphertext and hash, then the repository runs
\* `existing = await self.get_by_user_id(user_id, TokenType.REFRESH)`.
UpsertRead(p) ==
    /\ tx[p].pc = "start"
    /\ \E a \in ConcArgs, iv \in generate_iv :
         LET existing == repo_get_by_user_id(vault, U, REFRESH)
         IN  tx' = [tx EXCEPT ![p] =
                      [@ EXCEPT !.pc = IF existing.err = "" THEN "read" ELSE "failed",
                                !.token = a[1], !.session_state_id = a[2],
                                !.metadata = a[3], !.iv = iv,
                                !.existing = existing.entry,
                                !.err = existing.err]]
    /\ UNCHANGED <<vault, nextId, now, last, vault0, wrote, clock>>

\* The row lock of an UPDATE: held from the statement to the commit.
RowLocked(p, id) ==
    \E q \in Upserts \ {p} :
        /\ tx[q].pc = "written"
        /\ tx[q].existing # <<>>
        /\ tx[q].existing[1].id = id

\* The write statement of the branch taken: UPDATE ... WHERE id = existing.id,
\* or the INSERT of create().
UpsertWrite(p) ==
    /\ tx[p].pc = "read"
    /\ tx[p].existing # <<>> => ~RowLocked(p, tx[p].existing[1].id)
    /\ tx' = [tx EXCEPT ![p] =
                [@ EXCEPT !.pc = "written", !.at = now + 1,
                          !.id = IF tx[p].existing # <<>>
                                   THEN tx[p].existing[1].id ELSE nextId]]
    /\ nextId' = IF tx[p].existing # <<>> THEN nextId ELSE nextId + 1
    /\ now' = now + 1
    /\ wrote' = Append(wrote, p)
    /\ UNCHANGED <<vault, last, vault0, clock>>

\* The statement of p's open transaction, applied to the committed rows.
Applied(table, p) ==
    IF tx[p].existing # <<>>
      THEN update_values(table, tx[p].id, Payload(p).encrypted_token,
                         Payload(p).iv, Payload(p).token_hash,
                         Payload(p).session_state_id, Payload(p).metadata,
                         tx[p].at)
      ELSE create(table, AuthVault(tx[p].id, U, REFRESH,
                                   Payload(p).encrypted_token, Payload(p).iv,
                                   Payload(p).token_hash,
                                   Payload(p).session_state_id,
                                   Payload(p).metadata, tx[p].at))

\* `await session.commit()` after the handler has returned: the statement of
\* the transaction becomes visible.
UpsertCommit(p) ==
    /\ tx[p].pc = "written"
    /\ vault' = Applied(vault, p)
    /\ tx' = [tx EXCEPT ![p].pc = "done"]
    /\ UNCHANGED <<nextId, now, last, vault0, wrote, clock>>

NextConc ==
    \/ \E p \in Upserts : UpsertRead(p)
    \/ \E p \in Upserts : UpsertWrite(p)
    \/ \E p \in Upserts : UpsertCommit(p)

SpecConc == InitConc /\ [][NextConc]_vars

\* ------------------------------------- upserts next to a delete request
\* A request that deletes a refresh entry (delete_token, then the commit of
\* its session) while upsert requests are under way.  The DELETE waits for the
\* row lock of an UPDATE that has not committed.
DeleteDuring(token_id) ==
    /\ \A p \in Upserts :
          ~(tx[p].pc = "written" /\ tx[p].existing # <<>> /\ tx[p].id = token_id)
    /\ DeleteToken(token_id)

NextRace ==
    \/ \E p \in Upserts : UpsertRead(p)
    \/ \E p \in Upserts : UpsertWrite(p)
    \/ \E p \in Upserts : UpsertCommit(p)
    \/ \E r \in vault : r.token_type = REFRESH /\ DeleteDuring(r.id)

SpecRace == InitConc /\ [][NextRace]_vars

\* ------------------------------------------------- the flows and the clock
\* The six endpoints on a vault that holds some entries, while time passes: a
\* consent request hands out a state token, and the callback is called with a
\* code, a state token and possibly an error parameter.
MaxClock == 601
Codes == {"code1", "code2"}
Errors == {NoneStr, "", "access_denied"}
Far == MaxClock + DefaultExpiresIn

\* The clock is read at the instants next to an issue and next to an expiry.
Instants == {t \in 0..MaxClock : t <= 2 \/ t >= DefaultExpiresIn}

\* The state tokens a caller can present at time `at`: the ones the service
\* has generated so far, and ones it has not: signed with another key, changed
\* after they were signed, signed without a required field, or no token at all.
Generated(at) ==
    { generate_state_token("u1", "s1", ttl, t0) :
          ttl \in {1, DefaultExpiresIn}, t0 \in {t \in {0, 1} : t <= at} }
Crafted ==
    { jwt_encode(JwtPayload("u1", "s1", Far, 0), OtherKey),
      [generate_state_token("u1", "s1", 1, 0) EXCEPT !.payload.exp = Far],
      jwt_encode(JwtPayload(Missing, "s1", Far, 0), SecretKey),
      jwt_encode(JwtPayload("u1", Missing, Far, 0), SecretKey),
      [NoStateToken EXCEPT !.segments = 1] }
StateTokens(at) == Generated(at) \cup Crafted

\* The entries the flows may find.
Off1 == AuthVault(1, "u1", OFFLINE, EncTable[T1, IvA], IvA, HashTable[T1], "s1", NoMeta, 0)
Ref2 == AuthVault(2, "u1", REFRESH, EncTable[T1, IvB], IvB, HashTable[T1], "s1", NoMeta, 0)
FlowIds == 1..3

InitFlows ==
    /\ clock = 0
    /\ vault \in {{}, {Off1}, {Ref2}, {Off1, Ref2}}
    /\ nextId = 3
    /\ now = 0
    /\ last = Request("init", "", NoType, "", None, 0, "ok", <<>>, None)
    /\ vault0 = vault
    /\ tx = <<>>
    /\ wrote = <<>>

Tick(t) ==
    /\ t > clock
    /\ clock' = t
    /\ UNCHANGED <<vault, nextId, now, last, concVars>>

NextFlows ==
    \/ \E t \in Instants : Tick(t)
    \/ \E i \in Introspections : ValidateOnly(i)
    \/ \E i \in Introspections : OfflineConsent(i)
    \/ \E i \in Introspections : OfflineRenewal(i)
    \/ \E i \in Introspections : RefreshRotation(i)
    \/ \E b \in Bearers, id \in FlowIds : AccessTokenRefresh(b, id)
    \/ \E c \in Codes, st \in StateTokens(clock), e \in Errors : OfflineCallback(c, st, e)

SpecFlows == InitFlows /\ [][NextFlows]_vars

\* ---------------------------------------------------- bearer authentication
\* A header value is the sequence of its characters; an absent header is the
\* empty one (`if not authorization_header_value`: None and "" alike).
Bearer == <<"B", "e", "a", "r", "e", "r">>
Basic == <<"B", "a", "s", "i", "c">>
At1 == <<"a", "t", "1">>
At2 == <<"a", "t", "2">>
Authorizations ==
    { <<>>,
      At1,
      Basic \o <<" ">> \o At1,
      Bearer,
      Bearer \o <<" ">>,
      Bearer \o <<" ">> \o At1,
      Bearer \o <<" ">> \o At2,
      <<"b", "e", "a", "r", "e", "r", " ">> \o At1,
      <<"B", "E", "A", "R", "E", "R", " ">> \o At2,
      Bearer \o <<" ">> \o At1 \o <<" ">> \o At2 }

\* str.lower(), on the letters the headers are written with.
lower(s) ==
    [i \in 1..Len(s) |->
        CASE s[i] = "A" -> "a" [] s[i] = "B" -> "b" [] s[i] = "C" -> "c"
          [] s[i] = "E" -> "e" [] s[i] = "I" -> "i" [] s[i] = "R" -> "r"
          [] s[i] = "S" -> "s" [] OTHER -> s[i]]

\* str.partition(sep): what stands before and after the first separator.
partition(s, sep) ==
    LET hits == {i \in 1..Len(s) : s[i] = sep}
    IN  IF hits = {} THEN <<s, <<>>>>
        ELSE LET k == CHOOSE i \in hits : \A j \in hits : i <= j
             IN  <<SubSeq(s, 1, k - 1), SubSeq(s, k + 1, Len(s))>>

\* HTTPBearer(auto_error=False): the credentials of the Authorization header,
\* or None (the empty sequence) when the header is absent, has no scheme, has
\* no credentials or names another scheme than bearer.
bearer_scheme(authorization) ==
    LET param == partition(authorization, " ")
    IN  IF Len(authorization) = 0 \/ Len(param[1]) = 0 \/ Len(param[2]) = 0 THEN <<>>
        ELSE IF lower(param[1]) # lower(Bearer) THEN <<>>
        ELSE <<[scheme |-> param[1], credentials |-> param[2]]>>

BearerTokenOptional(credentials) ==
    IF Len(credentials) = 0 THEN [err |-> "", message |-> "", token |-> <<>>]
    ELSE [err |-> "", message |-> "", token |-> credentials[1].credentials]
get_bearer_token(credentials) ==
    IF Len(credentials) = 0
      THEN [err |-> "unauthorized", message |-> "Authorization header is required",
            token |-> <<>>]
    ELSE IF lower(credentials[1].scheme) # lower(Bearer)
      THEN [err |-> "unauthorized",
            message |-> "Invalid authentication scheme. Expected: Bearer",
            token |-> <<>>]
    ELSE [err |-> "", message |-> "", token |-> credentials[1].credentials]

\* The HTTP status an AuthManagerError is answered with.
ERROR_STATUS_MAP ==
    [code \in {"unauthorized", "token_not_active", "token_not_found",
               "validation_error", "invalid_request", "invalid_state_token"} |->
        CASE code \in {"unauthorized", "token_not_active"} -> 401
          [] code = "token_not_found" -> 404
          [] OTHER -> 400]
auth_manager_error_handler(code, status_code) ==
    IF code = "keycloak_error" THEN status_code
    ELSE IF code \in DOMAIN ERROR_STATUS_MAP THEN ERROR_STATUS_MAP[code]
    ELSE 500

\* The endpoints whose handler takes `token: BearerToken`.  The dependency is
\* resolved before the handler is entered: when it raises, the request ends
\* there; otherwise the handler runs with the token it returned.
BearerOps ==
    {"access_token", "validate_token", "offline_token", "offline_token_id",
     "refresh_token_id"}
Authorized(authorization) ==
    [NoArgs EXCEPT !.authorization = authorization,
                   !.bearer = get_bearer_token(bearer_scheme(authorization)).token]
BearerRequest(op, authorization, handler) ==
    LET token == get_bearer_token(bearer_scheme(authorization))
    IN  IF token.err # ""
          THEN Endpoint(op, Raises(token.err, vault), NoIntrospection, NoResponse,
                        <<>>, [NoArgs EXCEPT !.authorization = authorization])
          ELSE handler

AccessToken(authorization) ==
    \E id \in FlowIds :
        BearerRequest("access_token", authorization,
                      AccessTokenRefreshWith(Authorized(authorization).bearer, id,
                                             Authorized(authorization)))
ValidateToken(authorization) ==
    \E i \in Introspections :
        BearerRequest("validate_token", authorization,
                      ValidateOnlyWith(i, Authorized(authorization)))
OfflineToken(authorization) ==
    \E i \in Introspections :
        BearerRequest("offline_token", authorization,
                      OfflineConsentWith(i, Authorized(authorization)))
OfflineTokenId(authorization) ==
    \E i \in Introspections :
        BearerRequest("offline_token_id", authorization,
                      OfflineRenewalWith(i, Authorized(authorization)))
RefreshTokenId(authorization) ==
    \E i \in Introspections :
        BearerRequest("refresh_token_id", authorization,
                      RefreshRotationWith(i, Authorized(authorization)))

NextAuth ==
    \/ \E a \in Authorizations : AccessToken(a)
    \/ \E a \in Authorizations : ValidateToken(a)
    \/ \E a \in Authorizations : OfflineToken(a)
    \/ \E a \in Authorizations : OfflineTokenId(a)
    \/ \E a \in Authorizations : RefreshTokenId(a)

SpecAuth == InitFlows /\ [][NextAuth]_vars

\* ------------------------------------------------- the life of an entry
\* The six endpoints next to the operations of the vault service that write
\* (store_token, upsert_refresh_token) and that delete (delete_token), on a
\* vault that holds an offline and a refresh entry.
NextLifecycle ==
    \/ \E i \in {x \in Introspections : x.active} : ValidateOnly(i)
    \/ \E i \in {x \in Introspections : x.active} : OfflineConsent(i)
    \/ \E i \in Introspections : OfflineRenewal(i)
    \/ \E i \in Introspections : RefreshRotation(i)
    \/ \E id \in FlowIds : AccessTokenRefresh("at1", id)
    \/ \E st \in StateTokens(clock) : OfflineCallback("code1", st, NoneStr)
    \/ Store("u1", T2, OFFLINE, "s1", Meta1)
    \/ \E a \in UpsertArgs : UpsertRefresh(a[1], a[2], a[3], a[4])
    \/ \E id \in FlowIds : DeleteToken(id)

InitLifecycle ==
    /\ clock = 0
    /\ vault = {Off1, Ref2}
    /\ nextId = 3
    /\ now = 0
    /\ last = Request("init", "", NoType, "", None, 0, "ok", <<>>, None)
    /\ vault0 = vault
    /\ tx = <<>>
    /\ wrote = <<>>

SpecLifecycle == InitLifecycle /\ [][NextLifecycle]_vars

\* ------------------------------------------- requests that fail or are cancelled
\* The requests of SpecConc, and requests that call store_token, each of which
\* may fail or be cancelled at any await before its commit.
\* TokenVaultService.store_token(U, token, REFRESH, ...): iv, ciphertext and
\* hash are computed, then repository.create flushes one INSERT of the whole
\* row into the transaction of the request.
StoreWrite(p) ==
    /\ tx[p].pc = "start"
    /\ \E a \in ConcArgs, iv \in generate_iv :
         tx' = [tx EXCEPT ![p] =
                  [@ EXCEPT !.pc = "written", !.token = a[1],
                            !.session_state_id = a[2], !.metadata = a[3],
                            !.iv = iv, !.existing = <<>>, !.id = nextId,
                            !.at = now + 1]]
    /\ nextId' = nextId + 1
    /\ now' = now + 1
    /\ wrote' = Append(wrote, p)
    /\ UNCHANGED <<vault, last, vault0, clock>>

CloseKeepsWrite(table, p) == IF tx[p].pc = "written" THEN Applied(table, p) ELSE table
\* DatabaseSessionManager.session when the handler does not return: an
\* Exception is answered with session.rollback(), a CancelledError (no
\* Exception) reaches `finally: await session.close()`, which gives the
\* connection back with its transaction rolled back.  Either way the
\* statement of the transaction is discarded.
session_close(table, p) == table

\* The request fails or is cancelled before its handler calls the vault, after
\* its SELECT, or after its INSERT / UPDATE.  (A cancellation that arrives
\* while COMMIT is under way ends as UpsertCommit or as Cancel: the database
\* commits the transaction or it does not.)
Cancel(p) ==
    /\ tx[p].pc \in {"start", "read", "written"}
    /\ vault' = session_close(vault, p)
    /\ tx' = [tx EXCEPT ![p].pc = "cancelled"]
    /\ UNCHANGED <<nextId, now, last, vault0, wrote, clock>>

\* `except Exception: await session.rollback(); raise`: the statement of the
\* transaction is undone.
session_rollback(table, p) == table

\* The handler raises an Exception before it calls the vault, after its
\* SELECT, or after its INSERT / UPDATE: the session rolls back, the
\* exception goes on to the exception handlers, and the session is closed.
Fail(p) ==
    /\ tx[p].pc \in {"start", "read", "written"}
    /\ vault' = session_close(session_rollback(vault, p), p)
    /\ tx' = [tx EXCEPT ![p].pc = "failed", ![p].err = "Exception"]
    /\ UNCHANGED <<nextId, now, last, vault0, wrote, clock>>

NextCancel ==
    \/ \E p \in Upserts : UpsertRead(p)
    \/ \E p \in Upserts : UpsertWrite(p)
    \/ \E p \in Upserts : StoreWrite(p)
    \/ \E p \in Upserts : UpsertCommit(p)
    \/ \E p \in Upserts : Cancel(p)
    \/ \E p \in Upserts : Fail(p)

SpecCancel == InitConc /\ [][NextCancel]_vars

\* --------------------------------------------------- shared token detection
\* A Python tuple of two bools as the handler's answer shows it.
BoolPair(a, b) ==
    IF a THEN (IF b THEN "(True, True)" ELSE "(True, False)")
         ELSE (IF b THEN "(False, True)" ELSE "(False, False)")

\* TokenVaultService.check_shared_token for the hash of a token, a session and
\* an id to leave out; a read.
CheckSharedToken(token, session_state_id, exclude_id) ==
    LET res == check_shared_token(vault, HashTable[token], session_state_id, exclude_id)
    IN  /\ last' = Request("check_shared_token", "", NoType, session_state_id, token,
                           exclude_id,
                           IF res.err # "" THEN res.err
                           ELSE BoolPair(res.has_duplicate_hash, res.has_shared_session),
                           <<>>, None)
        /\ UNCHANGED <<vault, nextId, now>>
        /\ UNCHANGED <<concVars, clock>>

\* Entries come into the table by store_token and leave it by delete_token.
NextShared ==
    \/ \E a \in StoreArgs : Store(a[1], a[2], a[3], a[4], a[5])
    \/ \E id \in Ids : DeleteToken(id)
    \/ \E t \in Tokens, ss \in Sessions, x \in 1..(MaxWrites + 1) : CheckSharedToken(t, ss, x)

SpecShared == Init /\ [][NextShared]_vars

\* ------------------------------------------------ the crypto primitive alone
\* encrypt_token and decrypt_token applied to plaintexts of every length
\* around the block boundaries, and decrypt_token applied to ciphertexts that
\* encrypt_token did not produce.
Lengths == {0, 1, 15, 16, 17, 31, 32, 33}
Text(n) == [i \in 1..n |-> 97 + (i % 26)]
\* Plaintexts that end like a padding, and two that are not ASCII.
Plaintexts ==
    {Text(n) : n \in Lengths}
        \cup { <<1>>, <<2, 2>>, [i \in 1..15 |-> 1], [i \in 1..BlockSize |-> 16],
               [i \in 1..32 |-> 16], <<195, 169>>, <<226, 130, 172, 49>> }
CryptoIVs == IVs \cup {ToHex([i \in 1..BlockSize |-> 0]), ToHex([i \in 1..BlockSize |-> 255])}

\* What the cipher may yield on decryption, before _unpad: whole blocks whose
\* end is no padding, whole blocks whose end is one, and nothing at all.
Ending(n, tail) == [i \in 1..(n - Len(tail)) |-> 97 + (i % 26)] \o tail
Decrypted ==
    { <<>>,
      Ending(16, <<0>>), Ending(16, <<17>>), Ending(16, <<255>>), Ending(32, <<0>>),
      Ending(16, <<1, 2>>), Ending(16, <<2, 3, 3>>), Ending(16, <<3, 1, 3>>),
      Ending(32, <<4, 4, 4, 5, 4>>), [i \in 1..BlockSize |-> IF i = 1 THEN 15 ELSE 16],
      Ending(16, <<1>>), Ending(16, <<3, 3, 3>>), Ending(32, [i \in 1..BlockSize |-> 16]),
      Ending(16, <<255, 1>>) }

Crypto(op, token, padded, encrypted_token, iv, res) ==
    [ op |-> op, token |-> token, padded |-> padded,
      encrypted_token |-> encrypted_token, iv |-> iv,
      outcome |-> IF res.err = "" THEN "ok" ELSE res.err,
      message |-> res.message,
      plain |-> IF res.err = "" THEN res.val ELSE None ]
NotRun == [err |-> "", message |-> "", val |-> <<>>]

InitCrypto ==
    /\ clock = 0
    /\ vault = {}
    /\ nextId = 1
    /\ now = 0
    /\ last = Crypto("init", None, None, None, None, NotRun)
    /\ vault0 = {}
    /\ tx = <<>>
    /\ wrote = <<>>

\* encrypt_token(token, iv) for a plaintext and an IV of 16 bytes.
EncryptToken(token, iv) ==
    /\ last' = Crypto("encrypt_token", token, Pad(token), encrypt_token(token, iv),
                      iv, NotRun)
    /\ UNCHANGED <<vault, nextId, now, concVars, clock>>

\* A ciphertext that decrypts, under iv, to the given blocks.
StoredCiphertext(decrypted, iv) ==
    /\ last' = Crypto("ciphertext", None, decrypted,
                      ToHex(CbcEncrypt(decrypted, FromHex(iv))), iv, NotRun)
    /\ UNCHANGED <<vault, nextId, now, concVars, clock>>

\* decrypt_token of the ciphertext at hand, with its IV.
DecryptToken ==
    /\ last.op \in {"encrypt_token", "ciphertext"}
    /\ last' = Crypto("decrypt_token", last.token, last.padded, last.encrypted_token,
                      last.iv, decrypt_token(last.encrypted_token, last.iv))
    /\ UNCHANGED <<vault, nextId, now, concVars, clock>>

NextCrypto ==
    \/ \E token \in Plaintexts, iv \in CryptoIVs : EncryptToken(token, iv)
    \/ \E decrypted \in Decrypted, iv \in CryptoIVs : StoredCiphertext(decrypted, iv)
    \/ DecryptToken

SpecCrypto == InitCrypto /\ [][NextCrypto]_vars

\* ------------------------------------------------------------------- claims
RefreshEntries(table, user_id) ==
    {r \in table : r.user_id = user_id /\ r.token_type = REFRESH}

AllCompleted == \A p \in Upserts : tx[p].pc \in {"done", "failed"}
AllCommitted == \A p \in Upserts : tx[p].pc = "done"

\* C1: starting without a refresh entry for U, once the N >= 2 concurrent
\* upsert_refresh calls for U have all completed, U has exactly one refresh
\* entry and it holds the payload of the call whose write was ordered last.
C1_SingleRefreshAfterConcurrentUpserts ==
    (AllCompleted /\ RefreshEntries(vault0, U) = {})
        => /\ Cardinality(RefreshEntries(vault, U)) = 1
           /\ \A r \in RefreshEntries(vault, U) :
                 PayloadOf(r) = Payload(wrote[Len(wrote)])

\* C2: starting with one refresh entry E of U, U always has exactly one
\* refresh entry, with E's id, whose columns are E's or those of one single
\* call; once all calls have completed they are those of the call whose write
\* was ordered last.
C2_ConcurrentUpdatesKeepOneWholeEntry ==
    (RefreshEntries(vault0, U) = {E0})
        => /\ Cardinality(RefreshEntries(vault, U)) = 1
           /\ \A r \in RefreshEntries(vault, U) :
                 /\ r.id = E0.id
                 /\ \/ PayloadOf(r) = PayloadOf(E0)
                    \/ \E p \in Upserts :
                          tx[p].pc = "done" /\ PayloadOf(r) = Payload(p)
                 /\ AllCompleted =>
                       /\ AllCommitted
                       /\ PayloadOf(r) = Payload(wrote[Len(wrote)])

\* Both calls read E before either committed, wrote different payloads, and
\* both have committed.
C2_Witness ==
    /\ RefreshEntries(vault0, U) = {E0}
    /\ AllCommitted
    /\ \A p \in Upserts : tx[p].existing = <<E0>>
    /\ \E p, q \in Upserts : Payload(p).encrypted_token # Payload(q).encrypted_token

Matching(table, user_id, session_state_id, token_type) ==
    {r \in table : /\ user_id # "" => r.user_id = user_id
                   /\ session_state_id # "" => r.session_state_id = session_state_id
                   /\ token_type # NoType => r.token_type = token_type}

\* The entry holds a ciphertext / IV pair written by the service.
Readable(r) == \E t \in Tokens, iv \in IVs :
                   r.encrypted_token = EncTable[t, iv] /\ r.iv = iv

\* The entry holds malformed hex, an IV of the wrong length or bad padding.
Corrupt(r) ==
    <<r.encrypted_token, r.iv>> \in
        {<<BadHex, IvA>>, <<EncTable[T1, IvA], ShortIv>>, <<BadPadding, IvA>>}

Lookups == {"get_by_user_id", "get_by_session_state"}

\* C3: in every state reached by the service operations and the flows, each
\* user has at most one refresh entry.
C3_AtMostOneRefreshPerUser ==
    \A u \in Users : Cardinality(RefreshEntries(vault, u)) <= 1

\* C4: an upsert_refresh for a user who has a refresh entry E returns E's id,
\* keeps the number of entries, and a following get_by_user(U, refresh)
\* returns that one entry decrypting to the new token; for a user without a
\* refresh entry it creates one and returns the new id.
C4_UpsertReplacesInPlace ==
    [][\A a \in UpsertArgs :
         UpsertRefresh(a[1], a[2], a[3], a[4]) =>
           IF RefreshEntries(vault, a[1]) # {}
             THEN /\ last'.outcome = "ok"
                  /\ last'.id \in {r.id : r \in RefreshEntries(vault, a[1])}
                  /\ Cardinality(vault') = Cardinality(vault)
                  /\ get_by_user_id(vault', a[1], REFRESH).outcome = "ok"
                  /\ get_by_user_id(vault', a[1], REFRESH).entry[1].id = last'.id
                  /\ get_by_user_id(vault', a[1], REFRESH).plain = a[2]
             ELSE /\ last'.outcome = "ok"
                  /\ last'.id \notin {r.id : r \in vault}
                  /\ \E r \in RefreshEntries(vault', a[1]) : r.id = last'.id
      ]_vars

\* C5: a store adds exactly one entry, with an id no existing entry has, and
\* leaves every existing entry as it was, whatever entries exist already.
C5_StoreAlwaysCreates ==
    [][(last'.op = "store" /\ last' # last) =>
           /\ vault \subseteq vault'
           /\ Cardinality(vault' \ vault) = 1
           /\ \A r \in vault' \ vault :
                 /\ r.id \notin {x.id : x \in vault}
                 /\ r.id = last'.id
                 /\ r.user_id = last'.user_id /\ r.token_type = last'.token_type
      ]_vars

\* A store has run on a table that held an entry of the same user, type,
\* session and token hash.
C5_Witness ==
    /\ last.op = "store"
    /\ \E r \in vault :
          /\ r.id # last.id
          /\ r.user_id = last.user_id /\ r.token_type = last.token_type
          /\ r.session_state_id = last.session_state_id
          /\ r.token_hash = HashTable[last.token]

\* C6: retrieve_and_decrypt fails with NotFound when no entry has the id and
\* when the entry lacks its ciphertext or its IV; it then returns no plaintext
\* and, in every case, leaves the table as it was.
C6_RetrieveNotFound ==
    [][(last'.op = "retrieve_and_decrypt" /\ last' # last) =>
           /\ vault' = vault
           /\ (\/ ~(\E r \in vault : r.id = last'.id)
               \/ \E r \in vault : /\ r.id = last'.id
                                    /\ (r.encrypted_token = None \/ r.iv = None))
                => (last'.outcome = "token_not_found" /\ last'.plain = None)
      ]_vars

\* A retrieve has hit an entry that has a ciphertext and no IV.
C6_Witness ==
    /\ last.op = "retrieve_and_decrypt"
    /\ last.outcome = "token_not_found"
    /\ \E r \in vault : r.id = last.id /\ r.iv = None /\ r.encrypted_token # None

\* C7 as stated: for an entry created with encrypted_token = None,
\* retrieve_and_decrypt fails with VaultCorruption and not with NotFound.
C7_MissingCiphertextIsCorruption ==
    (/\ last.op = "retrieve_and_decrypt"
     /\ \E r \in vault : r.id = last.id /\ r.encrypted_token = None)
        => last.outcome = "vault_corruption"

\* C7 as amended: for such an entry retrieve_and_decrypt fails with NotFound
\* (token_not_found), the kind it also fails with for an id no entry has.
C7_MissingCiphertextIsNotFound ==
    /\ (/\ last.op = "retrieve_and_decrypt"
        /\ \E r \in vault : r.id = last.id /\ r.encrypted_token = None)
           => last.outcome = "token_not_found"
    /\ \A r \in vault :
          r.encrypted_token = None =>
              retrieve_and_decrypt(vault, r.id).outcome
                  = retrieve_and_decrypt(vault, nextId).outcome

C7_Witness ==
    /\ last.op = "retrieve_and_decrypt"
    /\ \E r \in vault : r.id = last.id /\ r.encrypted_token = None

\* The entry a lookup of the service decrypts: the one the id names, or the
\* only one that matches the key and the filter.
Selected ==
    IF last.op = "retrieve_and_decrypt" THEN {r \in vault : r.id = last.id}
    ELSE IF last.op \in Lookups /\ Cardinality(Matching(vault, last.user_id,
                                        last.session_state_id, last.token_type)) = 1
      THEN Matching(vault, last.user_id, last.session_state_id, last.token_type)
    ELSE {}

\* C8 as stated: when the crypto primitive cannot decrypt the stored entry,
\* the three lookups fail with the typed error VaultCorruption.
C8_DecryptFailureIsVaultCorruption ==
    (\E r \in Selected : Corrupt(r)) => last.outcome = "vault_corruption"

\* C8 as amended: they fail with the crypto primitive's own ValueError, which
\* is neither NotFound nor a None result.
C8_DecryptFailureIsValueError ==
    (\E r \in Selected : Corrupt(r))
        => (last.outcome = "ValueError" /\ last.entry = <<>> /\ last.plain = None)

\* get_by_user has reached an entry whose padding is invalid.
C8_Witness ==
    /\ last.op = "get_by_user_id"
    /\ last.outcome = "ValueError"
    /\ \E r \in Selected : r.encrypted_token = BadPadding

\* C9: get_by_user and get_by_session return None when no entry matches and
\* otherwise the matching entry with the latest created_at and its plaintext,
\* for any number of matching entries (here: entries the service wrote).
C9_LookupReturnsMostRecent ==
    (last.op \in Lookups) =>
        LET M == Matching(vault, last.user_id, last.session_state_id, last.token_type)
        IN  (\A r \in M : Readable(r)) =>
              IF M = {} THEN last.outcome = "None"
              ELSE /\ last.outcome = "ok"
                   /\ last.entry[1] \in M
                   /\ \A r \in M : r.created_at <= last.entry[1].created_at
                   /\ last.plain = Decrypt(last.entry[1]).val

\* C10: an Offline-Renewal whose bearer token is active and carries both
\* claims, whose session has an offline entry, and whose provider call is
\* answered with a refresh token, succeeds and adds an offline entry, also
\* when the session has several offline entries already.
C10_RenewalSucceedsWhenOfflineEntryExists ==
    (/\ last.op = "offline_token_id"
     /\ last.introspection.status = 200 /\ last.introspection.active
     /\ last.introspection.sub # NoneStr
     /\ last.introspection.session_state # NoneStr
     /\ \E r \in Matching(vault, "", last.introspection.session_state, OFFLINE) :
           Readable(r)
     /\ \A r \in Matching(vault, "", last.introspection.session_state, OFFLINE) :
           Readable(r)
     /\ last.response.status = 200
     /\ last.response.refresh_token # None)
        => /\ last.outcome = "ok"
           /\ \E r \in vault : r.id = last.id /\ r.token_type = OFFLINE

\* ------------------------------------------------------ claims on the flows
VaultReadCalls == {"get_by_session_state", "get_by_user_id", "retrieve_and_decrypt"}
VaultWriteCalls == {"store_token", "upsert_refresh_token"}
TokenEndpointCalls ==
    {"request_offline_token", "refresh_access_token", "exchange_code_for_token"}
Called(names) == \E k \in 1..Len(last.calls) : last.calls[k] \in names
ValidateFlows == {"offline_token", "offline_token_id", "refresh_token_id", "validate_token"}

\* C11: an Offline-Renewal that finds an offline entry for the session and is
\* answered with a refresh token leaves every entry as it was, the old offline
\* entry retrievable by its id, adds a new offline entry retrievable by its
\* own id, and changes no refresh entry nor any get_by_session(s, refresh).
C11_RenewalKeepsOldAddsNew ==
    [][\A i \in Introspections :
         (OfflineRenewal(i) /\ last'.response.status = 200
                            /\ last'.response.refresh_token # None) =>
           /\ vault \subseteq vault'
           /\ \A old \in Matching(vault, "", i.session_state, OFFLINE) :
                 retrieve_and_decrypt(vault', old.id).outcome = "ok"
           /\ \E new \in vault' \ vault :
                 /\ new.token_type = OFFLINE
                 /\ new.id = last'.id
                 /\ new.id \notin {r.id : r \in vault}
                 /\ retrieve_and_decrypt(vault', new.id).outcome = "ok"
           /\ {r \in vault' : r.token_type = REFRESH} = {r \in vault : r.token_type = REFRESH}
           /\ \A s \in Sessions :
                 get_by_session_state(vault', s, REFRESH) = get_by_session_state(vault, s, REFRESH)
      ]_vars

\* C12: a flow that begins with the validation of the bearer token, run with a
\* token the introspection reports as not active, fails with token_not_active
\* and neither reads nor writes the vault, issues no state token and does not
\* call the provider's token endpoint.
C12_InactiveTokenStopsTheFlow ==
    (/\ last.op \in ValidateFlows
     /\ last.introspection.status = 200
     /\ ~last.introspection.active)
        => /\ last.outcome = "token_not_active"
           /\ last.calls = <<"introspect_token">>

\* C13 as stated: such a flow, run with an active token that lacks sub or
\* session_state, fails with MissingClaim (validation_error), goes on to no
\* vault, state token or token endpoint step and does not report success.
C13_MissingClaimStopsEveryFlow ==
    (/\ last.op \in ValidateFlows
     /\ last.introspection.status = 200
     /\ last.introspection.active
     /\ (last.introspection.sub = NoneStr \/ last.introspection.session_state = NoneStr))
        => /\ last.outcome = "validation_error"
           /\ last.calls = <<"introspect_token">>

\* C13 as amended: Offline-Consent and Offline-Renewal do so for either claim;
\* Refresh-Rotation does so for sub only and goes on to the vault when only
\* session_state is absent; Validate-Only requires neither claim and reports
\* success, without any further step.
C13_MissingClaimPerFlow ==
    (/\ last.op \in ValidateFlows
     /\ last.introspection.status = 200
     /\ last.introspection.active
     /\ (last.introspection.sub = NoneStr \/ last.introspection.session_state = NoneStr))
        => /\ last.op \in {"offline_token", "offline_token_id"} =>
                 (last.outcome = "validation_error" /\ last.calls = <<"introspect_token">>)
           /\ (last.op = "refresh_token_id" /\ last.introspection.sub = NoneStr) =>
                 (last.outcome = "validation_error" /\ last.calls = <<"introspect_token">>)
           /\ (last.op = "refresh_token_id" /\ last.introspection.sub # NoneStr) =>
                 Called({"get_by_user_id"})
           /\ last.op = "validate_token" =>
                 (last.outcome = "ok" /\ last.calls = <<"introspect_token">>)

\* A consent request has been made with an active token without session_state.
C13_Witness ==
    /\ last.op = "offline_token"
    /\ last.introspection.status = 200 /\ last.introspection.active
    /\ last.introspection.sub # NoneStr
    /\ last.introspection.session_state = NoneStr
    /\ last.outcome = "validation_error"

\* C14: the Access-Token Refresh flow does not call the introspection and does
\* not write the vault; it fails with NotFound, without a provider call, when
\* no entry has the id; and what it finds does not depend on the bearer token.
C14_AccessTokenFlowReadsOnly ==
    [][(last'.op = "access_token" /\ last' # last) =>
         /\ vault' = vault
         /\ \A k \in 1..Len(last'.calls) :
               last'.calls[k] \notin VaultWriteCalls \cup {"introspect_token"}
         /\ ~(\E r \in vault : r.id = last'.id) =>
               (last'.outcome = "token_not_found"
                  /\ last'.calls = <<"retrieve_and_decrypt">>
                  /\ last'.response = NoResponse)
         /\ \A b \in Bearers :
               /\ get_access_token_lookup(vault, b, last'.id)
                     = get_access_token_lookup(vault, last'.args.bearer, last'.id)
               /\ get_access_token_lookup(vault, b, last'.id).outcome = "ok"
                     => last'.outcome = get_access_token_request(last'.response)
               /\ get_access_token_lookup(vault, b, last'.id).outcome # "ok"
                     => last'.outcome = get_access_token_lookup(vault, b, last'.id).outcome
      ]_vars

\* The flow has run to its end with the second bearer token.
C14_Witness ==
    /\ last.op = "access_token"
    /\ last.args.bearer = "at2"
    /\ last.outcome = "ok"
    /\ last.response.status = 200

\* The payloads the service signs: any user, any session, any positive ttl,
\* issued at any instant up to now.
Ttls == {1, 2, DefaultExpiresIn}
IssuedUpTo(at) ==
    { generate_state_token(u, ss, ttl, t0) :
          u \in Users, ss \in Sessions, ttl \in Ttls, t0 \in {t \in Instants : t <= at} }
\* A token as altered after it was signed: one field of its payload changed.
Altered(token) ==
    { [token EXCEPT !.payload.user_id = u] : u \in Users \ {token.payload.user_id} }
      \cup { [token EXCEPT !.payload.session_state_id = ss] :
                 ss \in Sessions \ {token.payload.session_state_id} }
      \cup { [token EXCEPT !.payload.exp = token.payload.exp + DefaultExpiresIn] }

\* C15: a state token generated for u and s with a ttl > 0 and parsed with the
\* same secret before its exp yields exactly u and s; the same payload signed
\* with another secret, and the token altered after it was signed, are
\* rejected with invalid_state_token.
C15_StateTokenRoundTrip ==
    \A token \in IssuedUpTo(clock), b \in BOOLEAN :
        /\ clock < token.payload.exp =>
              /\ parse_state_token(token, clock, b).err = ""
              /\ parse_state_token(token, clock, b).val =
                    <<[user_id |-> token.payload.user_id,
                       session_state_id |-> token.payload.session_state_id]>>
        /\ parse_state_token(jwt_encode(token.payload, OtherKey), clock, b).err
              = "invalid_state_token"
        /\ \A altered \in Altered(token) :
              parse_state_token(altered, clock, b).err = "invalid_state_token"

\* A callback has presented a generated token some time after its issue and
\* has gone on to the code exchange.
C15_Witness ==
    /\ last.op = "offline_token_callback"
    /\ last.args.state \in Generated(last.at)
    /\ last.at > last.args.state.payload.iat
    /\ Called({"exchange_code_for_token"})

\* C16: a state token parses at the instant it is generated; once the clock
\* has passed its exp it fails to parse, at that and at every later instant,
\* and a callback that presents it reaches neither the code exchange nor a
\* vault write.
C16_StateTokenExpires ==
    /\ \A u \in Users, ss \in Sessions, ttl \in Ttls, b \in BOOLEAN :
          parse_state_token(generate_state_token(u, ss, ttl, clock), clock, b).err = ""
    /\ \A token \in IssuedUpTo(clock), b \in BOOLEAN, t \in Instants :
          (token.payload.exp < clock /\ clock <= t) =>
              parse_state_token(token, t, b).err = "invalid_state_token"
    /\ (/\ last.op = "offline_token_callback"
        /\ last.args.state \in Generated(last.at)
        /\ last.args.state.payload.exp < last.at
        /\ last.args.error = NoneStr)
           => /\ last.outcome = "invalid_state_token"
              /\ last.calls = <<"parse_state_token">>
              /\ vault = vault0

\* A callback has presented a token issued with the default ttl after its exp.
C16_Witness ==
    /\ last.op = "offline_token_callback"
    /\ last.args.error = NoneStr
    /\ last.args.state = generate_state_token("u1", "s1", DefaultExpiresIn, 0)
    /\ last.at > DefaultExpiresIn
    /\ last.outcome = "invalid_state_token"

\* What parse answers at the time of the last callback for three tokens: one
\* past its exp, one signed with another key, one signed without user_id.
ExpiredToken == generate_state_token("u1", "s1", 1, 0)
ForgedToken == jwt_encode(JwtPayload("u1", "s1", Far, 0), OtherKey)
ClaimlessToken == jwt_encode(JwtPayload(Missing, "s1", Far, 0), SecretKey)

\* C17 as stated: the three failures of parse are of three kinds:
\* ExpiredStateToken, InvalidStateToken and MissingClaim.
C17_ThreeFailureKinds ==
    (last.op = "offline_token_callback" /\ last.args.error = NoneStr) =>
        /\ (last.args.state = ExpiredToken /\ last.at > 1) =>
               last.outcome = "expired_state_token"
        /\ last.args.state = ForgedToken => last.outcome = "invalid_state_token"
        /\ last.args.state = ClaimlessToken => last.outcome = "validation_error"

\* C17 as amended: the three failures are of the one kind invalid_state_token
\* and differ in their message.
C17_OneFailureKind ==
    /\ (last.op = "offline_token_callback" /\ last.args.error = NoneStr) =>
          /\ (last.args.state = ExpiredToken /\ last.at > 1) =>
                 last.outcome = "invalid_state_token"
          /\ last.args.state = ForgedToken => last.outcome = "invalid_state_token"
          /\ last.args.state = ClaimlessToken => last.outcome = "invalid_state_token"
    /\ \A b \in BOOLEAN :
          clock > 1 =>
              /\ parse_state_token(ExpiredToken, clock, b).message
                    = "State token has expired"
              /\ parse_state_token(ForgedToken, clock, b).message
                    = "Invalid state token"
              /\ parse_state_token(ClaimlessToken, clock, b).message
                    = "Missing required field in state token"

\* A callback has presented the token that lacks user_id.
C17_Witness ==
    /\ last.op = "offline_token_callback"
    /\ last.args.error = NoneStr
    /\ last.args.state = ClaimlessToken
    /\ last.outcome = "invalid_state_token"

C19_CallbackStoresOfflineToken ==
    [][(/\ last'.op = "offline_token_callback"
        /\ last' # last
        /\ "exchange_code_for_token" \in {last'.calls[k] : k \in 1..Len(last'.calls)}
        /\ last'.response.status = 200
        /\ last'.response.refresh_token # None)
          => /\ last'.outcome = "ok"
             /\ vault \subseteq vault'
             /\ Cardinality(vault' \ vault) = 1
             /\ \A r \in vault' \ vault :
                   /\ r.token_type = OFFLINE
                   /\ r.id = last'.id
                   /\ Decrypt(r).val = last'.response.refresh_token
                   /\ r.session_state_id = last'.args.state.payload.session_state_id
      ]_vars

\* C20: a callback or a renewal whose provider call is answered without a
\* refresh token fails with keycloak_error and leaves the vault as it was.
C20_NoRefreshTokenIsProviderError ==
    [][(/\ last'.op \in {"offline_token_callback", "offline_token_id"}
        /\ last' # last
        /\ last'.response.status = 200
        /\ last'.response.refresh_token = None)
          => /\ last'.outcome = "keycloak_error"
             /\ vault' = vault
      ]_vars

\* The six flows, and how often a flow has called some of the named steps.
FlowOps == ValidateFlows \cup {"access_token", "offline_token_callback"}
Count(calls, names) == Cardinality({k \in 1..Len(calls) : calls[k] \in names})

\* C21: a Refresh-Rotation whose bearer token validates for a user who has no
\* refresh entry fails with invalid_request (NoSession), which is not
\* token_not_found, without a call of the token endpoint and without writing
\* the vault.
C21_NoRefreshEntryIsNoSession ==
    [][(/\ last'.op = "refresh_token_id"
        /\ last' # last
        /\ last'.introspection.status = 200 /\ last'.introspection.active
        /\ last'.introspection.sub # NoneStr
        /\ RefreshEntries(vault, last'.introspection.sub) = {})
          => /\ last'.outcome = "invalid_request"
             /\ last'.outcome # "token_not_found"
             /\ Count(last'.calls, TokenEndpointCalls \cup VaultWriteCalls) = 0
             /\ last'.response = NoResponse
             /\ vault' = vault
      ]_vars

\* A rotation has failed so for a user who has an offline entry only.
C21_Witness ==
    /\ last.op = "refresh_token_id"
    /\ last.introspection.active /\ last.introspection.sub = "u1"
    /\ last.outcome = "invalid_request"
    /\ last.calls = <<"introspect_token", "get_by_user_id">>
    /\ vault = {Off1}

\* C22: a Refresh-Rotation whose refresh grant is answered without a refresh
\* token fails with no_refresh_token (NoRefreshIssued), a kind that is none of
\* keycloak_error, token_not_found and validation_error, does not call
\* upsert_refresh_token, and leaves the user's refresh entry as it was.
C22_NoRefreshTokenIsNoRefreshIssued ==
    [][(/\ last'.op = "refresh_token_id"
        /\ last' # last
        /\ last'.response.status = 200
        /\ last'.response.refresh_token = None)
          => /\ last'.outcome = "no_refresh_token"
             /\ last'.outcome \notin {"keycloak_error", "token_not_found", "validation_error"}
             /\ Count(last'.calls, {"upsert_refresh_token"}) = 0
             /\ RefreshEntries(vault', last'.introspection.sub)
                   = RefreshEntries(vault, last'.introspection.sub)
      ]_vars

\* C23: a Refresh-Rotation whose bearer token validates, whose user has a
\* refresh entry E and whose refresh grant is answered with a refresh token t
\* succeeds: it calls upsert_refresh_token, answers with E's id, and leaves
\* the user with exactly one refresh entry, which decrypts to t.
C23_RotationReplacesTheRefreshEntry ==
    [][(/\ last'.op = "refresh_token_id"
        /\ last' # last
        /\ last'.introspection.status = 200 /\ last'.introspection.active
        /\ last'.introspection.sub # NoneStr
        /\ Cardinality(RefreshEntries(vault, last'.introspection.sub)) = 1
        /\ \A r \in RefreshEntries(vault, last'.introspection.sub) : Readable(r)
        /\ last'.response.status = 200
        /\ last'.response.refresh_token # None)
          => /\ last'.outcome = "ok"
             /\ Count(last'.calls, {"upsert_refresh_token"}) = 1
             /\ last'.id \in {r.id : r \in RefreshEntries(vault, last'.introspection.sub)}
             /\ Cardinality(RefreshEntries(vault', last'.introspection.sub)) = 1
             /\ \A r \in RefreshEntries(vault', last'.introspection.sub) :
                   Decrypt(r).val = last'.response.refresh_token
      ]_vars

\* C24: in every flow, a provider call (introspection, code exchange, refresh
\* grant) answered with a status that is not 2xx makes the flow fail with
\* keycloak_error carrying that status, and the vault stays as it was.
C24_ProviderFailureCarriesStatus ==
    [][(/\ last'.op \in FlowOps
        /\ last' # last
        /\ \/ last'.introspection.status \notin {0} \cup 200..299
           \/ last'.response.status \notin {0} \cup 200..299)
          => /\ last'.outcome = "keycloak_error"
             /\ last'.status_code =
                   IF last'.introspection.status \notin {0} \cup 200..299
                     THEN last'.introspection.status
                     ELSE last'.response.status
             /\ vault' = vault
      ]_vars

\* The refresh grant of an Access-Token Refresh has been answered with 503.
C24_Witness ==
    /\ last.op = "access_token"
    /\ last.response.status = 503
    /\ last.outcome = "keycloak_error"
    /\ last.status_code = 503
    /\ vault # {}

\* C25: in one run of a flow the introspection endpoint is called at most
\* once and the token endpoint at most once, whatever the provider answers.
C25_NoProviderCallTwice ==
    (last.op \in FlowOps)
        => /\ Count(last.calls, {"introspect_token"}) <= 1
           /\ Count(last.calls, TokenEndpointCalls) <= 1

\* The code exchange of a callback has been answered with an error.
C25_Witness ==
    /\ last.op = "offline_token_callback"
    /\ last.response.status = 503
    /\ Count(last.calls, {"exchange_code_for_token"}) = 1
    /\ last.outcome = "keycloak_error"

\* C26: decrypt_token(encrypt_token(p, iv), iv) = p for plaintexts of every
\* length, the empty one, one byte and two blocks or more included, and every
\* IV of 16 bytes; _pad yields a positive multiple of 16 bytes, more than it
\* was given, and _unpad of that yields what _pad was given.
C26_EncryptDecryptRoundTrip ==
    /\ last.op = "encrypt_token" =>
          /\ Len(last.padded) > 0
          /\ Len(last.padded) % BlockSize = 0
          /\ Len(last.padded) > Len(last.token)
          /\ UnpadError(last.padded) = ""
          /\ Unpad(last.padded) = last.token
    /\ (last.op = "decrypt_token" /\ last.token # None) =>
          /\ last.outcome = "ok"
          /\ last.plain = last.token

\* A plaintext of exactly two blocks whose bytes all look like a padding has
\* been encrypted and decrypted.
C26_Witness ==
    /\ last.op = "decrypt_token"
    /\ last.token = [i \in 1..32 |-> 16]
    /\ last.outcome = "ok"

\* What decrypt_token unpads: the CBC decryption of the ciphertext at hand.
DecryptedBytes == CbcDecrypt(FromHex(last.encrypted_token), FromHex(last.iv))
InvalidPadding(data) ==
    \/ Len(data) = 0
    \/ data[Len(data)] = 0
    \/ data[Len(data)] > BlockSize
    \/ \E k \in 1..data[Len(data)] :
          k <= Len(data) /\ data[Len(data) + 1 - k] # data[Len(data)]
PaddingMessages ==
    {"Cannot unpad empty data", "Invalid padding length", "Invalid padding bytes"}

\* C27: when the decrypted bytes are empty, or end in 0 or in more than 16, or
\* do not end in as many bytes of the padding length as it says, decrypt_token
\* fails with the ValueError of an invalid padding and returns no plaintext.
C27_InvalidPaddingIsRejected ==
    (last.op = "decrypt_token" /\ InvalidPadding(DecryptedBytes))
        => /\ last.outcome = "ValueError"
           /\ last.message \in PaddingMessages
           /\ last.plain = None

\* The decrypted block ends in <<3, 1, 3>>: the last byte says 3, the byte
\* before it is not 3.
C27_Witness ==
    /\ last.op = "decrypt_token"
    /\ last.padded = Ending(16, <<3, 1, 3>>)
    /\ DecryptedBytes = last.padded
    /\ last.message = "Invalid padding bytes"

\* C29: delete_token(id) returns True exactly when an entry had the id; after
\* it no entry has the id and retrieve_and_decrypt(id) fails with
\* token_not_found, every other entry is as it was, and a second delete of the
\* id removes nothing, that is, returns False and changes nothing.
C29_DeleteRemovesExactlyThatEntry ==
    [][(last'.op = "delete" /\ last' # last) =>
           /\ (last'.outcome = "True") <=> (\E r \in vault : r.id = last'.id)
           /\ last'.outcome \in {"True", "False"}
           /\ ~(\E r \in vault' : r.id = last'.id)
           /\ retrieve_and_decrypt(vault', last'.id).outcome = "token_not_found"
           /\ vault' = {r \in vault : r.id # last'.id}
           /\ delete_by_id(vault', last'.id) = vault'
      ]_vars

\* An id that was given to an entry has been deleted a second time, while
\* another entry is in the table.
C29_Witness ==
    /\ last.op = "delete"
    /\ last.outcome = "False"
    /\ last.id < nextId
    /\ vault # {}

\* C30: check_shared_token(h, s, x) answers duplicate_hash = true exactly when
\* an entry other than x has token_hash h and shared_session = true exactly
\* when an entry other than x has session_state_id s, however many such
\* entries there are, and it leaves the table as it was.
C30_CheckSharedCountsOthers ==
    [][(last'.op = "check_shared_token" /\ last' # last) =>
           LET others == {r \in vault : r.id # last'.id}
           IN  /\ last'.outcome =
                     BoolPair(\E r \in others : r.token_hash = HashTable[last'.token],
                              \E r \in others :
                                  r.session_state_id = last'.session_state_id)
               /\ vault' = vault
      ]_vars

\* The write of request p as a committed row shows it: all the columns of
\* p's statement, with the time of the statement.
WrittenBy(r, p) ==
    /\ r.id = tx[p].id
    /\ PayloadOf(r) = Payload(p)
    /\ tx[p].at = IF tx[p].existing # <<>> THEN r.updated_at ELSE r.created_at

\* C28: in every state of the committed table, whatever requests have failed
\* or were cancelled before, between or after their statements, each entry has
\* its ciphertext and its IV both or neither, and each entry is as it was at
\* the start or shows the whole write of one request that has committed.
C28_NoHalfWrittenEntry ==
    /\ \A r \in vault : (r.encrypted_token = None) <=> (r.iv = None)
    /\ \A r \in vault :
          \/ r \in vault0
          \/ \E p \in Upserts : tx[p].pc = "done" /\ WrittenBy(r, p)

\* A request was cancelled after its UPDATE of the refresh entry, and another
\* request has committed its own.
C28_Witness ==
    /\ \E p \in Upserts :
          /\ tx[p].pc = "cancelled"
          /\ tx[p].at > 0
          /\ tx[p].existing = <<E0>>
    /\ \E q \in Upserts : tx[q].pc = "done" /\ tx[q].existing = <<E0>>

\* ---------------------------------------------------------------------- C31
\* What the header carries after the scheme and the one space that ends it.
AfterScheme(authorization) == SubSeq(authorization, Len(Bearer) + 2, Len(authorization))
\* The header names the bearer scheme and carries a token after it.
HasBearerToken(authorization) ==
    /\ Len(authorization) > Len(Bearer) + 1
    /\ lower(SubSeq(authorization, 1, Len(Bearer))) = <<"b", "e", "a", "r", "e", "r">>
    /\ authorization[Len(Bearer) + 1] = " "

\* C31: a request to one of the five bearer endpoints whose Authorization
\* header is absent or does not carry a token under the Bearer scheme is
\* answered Unauthorized (401) with no call to the provider, no access to the
\* vault and the vault unchanged; with a Bearer header the token the handler
\* works with is exactly what followed the scheme.
C31_BearerIsRequired ==
    [][(last' # last /\ last'.op \in BearerOps) =>
          IF HasBearerToken(last'.args.authorization)
            THEN /\ last'.args.bearer = AfterScheme(last'.args.authorization)
                 /\ last'.outcome # "unauthorized"
                 /\ last'.calls # <<>>
            ELSE /\ last'.outcome = "unauthorized"
                 /\ auth_manager_error_handler(last'.outcome, last'.status_code) = 401
                 /\ last'.calls = <<>>
                 /\ last'.introspection = NoIntrospection
                 /\ last'.response = NoResponse
                 /\ vault' = vault]_vars

\* A request with a Basic header was rejected before anything was called.
C31_Witness ==
    /\ last.op \in BearerOps
    /\ last.outcome = "unauthorized"
    /\ last.args.authorization = Basic \o <<" ">> \o At1
    /\ last.calls = <<>>

\* ---------------------------------------------------------------------- C32
\* The positions in the trace of calls at which one of `names` was called.
Positions(calls, names) == {k \in 1..Len(calls) : calls[k] \in names}
Before(calls, first, then) ==
    \A i \in Positions(calls, first), j \in Positions(calls, then) : i < j
\* The introspection answered and the token passed the flow's validation.
IntrospectionPassed(op, introspection) ==
    /\ introspection.status = 200
    /\ introspection.active
    /\ introspection.sub # NoneStr
    /\ op = "offline_token_id" => introspection.session_state # NoneStr
RenewalAndRotation == {"offline_token_id", "refresh_token_id"}
EntryRead(table, op, introspection) ==
    IF op = "offline_token_id"
      THEN offline_token_lookup(table, introspection).outcome = "ok"
      ELSE refresh_token_lookup(table, introspection).outcome = "ok"

\* C32: in one run of Offline-Renewal or Refresh-Rotation the calls come in
\* the order introspect, vault read, provider token call, vault write; the
\* vault is written only after the provider answered 200 with a refresh token,
\* the provider is called only after the vault read returned an entry, and the
\* vault is read only after the introspection passed (answered, active, with
\* the required claims).
C32_StepsInOrder ==
    [][(last' # last /\ last'.op \in RenewalAndRotation) =>
          LET calls == last'.calls
          IN  /\ Before(calls, {"introspect_token"}, VaultReadCalls)
              /\ Before(calls, VaultReadCalls, TokenEndpointCalls)
              /\ Before(calls, TokenEndpointCalls, VaultWriteCalls)
              /\ Positions(calls, VaultWriteCalls) # {}
                    => /\ Positions(calls, TokenEndpointCalls) # {}
                       /\ last'.response.status = 200
                       /\ last'.response.refresh_token # None
              /\ Positions(calls, TokenEndpointCalls) # {}
                    => /\ Positions(calls, VaultReadCalls) # {}
                       /\ EntryRead(vault, last'.op, last'.introspection)
              /\ Positions(calls, VaultReadCalls) # {}
                    => /\ Positions(calls, {"introspect_token"}) # {}
                       /\ IntrospectionPassed(last'.op, last'.introspection)]_vars

\* ---------------------------------------------------------------------- C33
EntryIds(table) == {r.id : r \in table}
\* C33: a step that is not the delete-by-id operation - a run of one of the six
\* flows, or of the store and upsert operations they are written to use -
\* removes no entry id from the vault and leaves the created_at of every
\* entry as it was.
C33_OnlyDeleteDestroys ==
    [][last'.op # "delete" =>
          /\ EntryIds(vault) \subseteq EntryIds(vault')
          /\ \A r \in vault, q \in vault' : r.id = q.id => q.created_at = r.created_at]_vars

\* An entry that existed from the start is still there, with its created_at,
\* after the flows ran and the vault was written; an upsert updated an entry
\* in place.
C33_Witness ==
    /\ last.op = "upsert_refresh"
    /\ last.outcome = "ok"
    /\ \E r \in vault : r.id = last.id /\ r.id = Ref2.id /\ r.updated_at > r.created_at
    /\ Off1.id \in EntryIds(vault)

\* ---------------------------------------------------------------------- C34
\* C34: an Offline-Renewal whose provider call was answered with a refresh
\* token ends with a new entry whose metadata records, under "from", the id of
\* an older offline entry of the session, and that entry is still in the vault.
C34_RenewalRecordsProvenance ==
    (/\ last.op = "offline_token_id"
     /\ last.response.status = 200
     /\ last.response.refresh_token # None)
        => \E new \in vault, old \in vault :
              /\ new.id = last.id
              /\ old.id # new.id
              /\ old.token_type = OFFLINE
              /\ old.session_state_id = last.introspection.session_state
              /\ <<"from", ToString(old.id)>> \in new.metadata

\* ---------------------------------------------------------------------- C35
\* The entry lacks its ciphertext or its IV.
MissingData(r) == Falsy(r.encrypted_token) \/ Falsy(r.iv)
\* The only entry the lookup of the last request matched, when it lacks data:
\* the lookups of the service by their key and filter, Offline-Renewal by the
\* session of a token that passed its validation, Refresh-Rotation by the user.
ReachedMissing ==
    LET hit == IF last.op \in Lookups THEN Selected
               ELSE IF /\ last.op = "offline_token_id"
                       /\ offline_token_validate(last.introspection) = ""
                 THEN Matching(vault, "", last.introspection.session_state, OFFLINE)
               ELSE IF /\ last.op = "refresh_token_id"
                       /\ refresh_token_validate(last.introspection) = ""
                 THEN Matching(vault, last.introspection.sub, "", REFRESH)
               ELSE {}
    IN  Cardinality(hit) = 1 /\ \A r \in hit : MissingData(r)

C36_UpsertReturnsLiveEntry ==
    [][\A p \in Upserts :
          (tx[p].pc = "written" /\ tx'[p].pc = "done") =>
              \E r \in vault' :
                  /\ r.id = tx[p].id
                  /\ Decrypt(r).err = ""
                  /\ Decrypt(r).val = tx[p].token]_vars

EndsInError(p) == tx[p].pc # tx'[p].pc /\ tx'[p].pc \in {"failed", "cancelled"}
\* C38: the step in which a request ends with an error, at whatever point of
\* its handler, leaves the committed table as it is, and the committed table
\* changes only in the step in which a request that returned normally commits
\* - by the statement of that request.
C38_FailedRequestChangesNothing ==
    [][/\ (\E p \in Upserts : EndsInError(p)) => vault' = vault
       /\ vault' # vault =>
             \E p \in Upserts : /\ tx[p].pc = "written"
                                /\ tx'[p].pc = "done"
                                /\ \A r \in vault' \ vault : WrittenBy(r, p)]_vars

\* A request failed after its UPDATE of the refresh entry and one failed
\* after its INSERT; the table is the one the requests started from.
C38_Witness ==
    /\ \E p \in Upserts :
          /\ tx[p].pc = "failed"
          /\ tx[p].err = "Exception"
          /\ tx[p].at > 0
          /\ tx[p].existing = <<E0>>
    /\ \E q \in Upserts :
          /\ tx[q].pc = "failed"
          /\ tx[q].at > 0
          /\ tx[q].existing = <<>>
    /\ vault = vault0

\* ---------------------------------------------------------------------- C39
\* C39: a callback whose code exchange was answered with a refresh token was
\* called with a state token the service generated earlier and that has not
\* expired, and it writes an entry that carries the user_id and the
\* session_state_id of that state token, whatever session_state the answer of
\* the provider reports.
C39_CallbackEntryFollowsStateToken ==
    [][(/\ last'.op = "offline_token_callback"
        /\ last' # last
        /\ Positions(last'.calls, {"exchange_code_for_token"}) # {}
        /\ last'.response.status = 200
        /\ last'.response.refresh_token # None)
          => /\ last'.args.state \in Generated(clock)
             /\ clock <= last'.args.state.payload.exp
             /\ \E r \in vault' \ vault :
                   /\ r.id = last'.id
                   /\ r.token_type = OFFLINE
                   /\ r.user_id = last'.args.state.payload.user_id
                   /\ r.session_state_id = last'.args.state.payload.session_state_id
      ]_vars

\* ---------------------------------------------------------------------- C40
OfType(table, token_type) == {r \in table : r.token_type = token_type}
\* C40: a step of upsert_refresh or of Refresh-Rotation leaves the offline
\* entries of every user as they are - none created, changed or removed - and
\* a step of Offline-Callback or of Offline-Renewal leaves the refresh entries
\* as they are, wherever the step stands among the other requests.
C40_TokenTypesDoNotInterfere ==
    [][/\ last'.op \in {"upsert_refresh", "refresh_token_id"}
             => OfType(vault', OFFLINE) = OfType(vault, OFFLINE)
       /\ last'.op \in {"offline_token_callback", "offline_token_id"}
             => OfType(vault', REFRESH) = OfType(vault, REFRESH)]_vars

\* An upsert created the refresh entry of a user whose only entries were
\* offline ones, one of them stored after the start.
C40_Witness ==
    /\ last.op = "upsert_refresh"
    /\ last.outcome = "ok"
    /\ last.user_id = "u1"
    /\ \E r \in vault : r.id = last.id /\ r.token_type = REFRESH /\ r.id # Ref2.id
    /\ Off1 \in vault
    /\ Cardinality(OfType(vault, OFFLINE)) = 2

====
